---- MODULE Spec2Model ----
(***************************************************************************)
(* A model of the CouchDB client of fnl/bais: src/lib/couchdb.js           *)
(* (CouchClient) and src/etc/couchdb.js (Connection).                      *)
(*                                                                         *)
(* Text is a sequence of characters; a character is a short TLA+ string    *)
(* ("a", "{", "_"), with "dq" standing for the double quote, "bslash" for  *)
(* the backslash and "eacute" for a character that takes two bytes in      *)
(* UTF-8.  A fixed word that is never taken apart (a method, a host or     *)
(* header name) is written as one character.  A JavaScript value is a pair *)
(* <<type tag, payload>>.                                                  *)
(***************************************************************************)
EXTENDS Integers, Sequences, FiniteSets, TLC

VARIABLES
  \* one JSON-mode request (CouchClient.requestJson)
  phase,        \* "sent": request issued; "open": the response arrived
  statusCode,   \* response.statusCode
  body,         \* the fragments pushed to the closure's body array
  joined,       \* TRUE once body = body.join('') has made it a string
  emitted,      \* the events the emitter has emitted, in order
  delivered,    \* the response events delivered so far, each with the
                \* length of emitted when its handler started
  uncaught,     \* TRUE once a response handler ended by an uncaught throw
  \* the error classifier called on its own (defineError, makeError)
  errArgs,      \* the arguments (code, body) of the call
  errOut,       \* what defineError and makeError returned
  \* one call of a verb method (copy, delete/del, get, head, post, put)
  call,         \* the call: the client variant, the verb and its arguments
  invoked,      \* the transports the call invoked, with what they received
  \* one CouchClient and the request made with it
  client,       \* protocol, options, _auth_url and default_content_type
  last,         \* the request or query made: the client as it was, the
                \* arguments, and what reached the http module
  \* the life of CouchClient instances
  clients,      \* the instances made so far, in order of creation
  done,         \* the last call made on one of them, its arguments, the
                \* instance as it was before, and what the call returned
  \* requests in flight on one client
  held,         \* a headers object the caller keeps and passes to requests
  flights,      \* the requests issued: what was sent and what came of it
  \* one request of a Connection (etc variant), and one request handle
  conn,         \* the request _requestRaw made, what was written to it and
                \* the calls of the caller's callback
  handle        \* the handle CouchClient.request returned: what the caller
                \* and the library wrote to it, and whether it was ended

decoderVars == <<phase, statusCode, body, joined, emitted, delivered, uncaught>>
errorVars == <<errArgs, errOut>>
dispatchVars == <<call, invoked>>
requestVars == <<client, last>>
lifecycleVars == <<clients, done>>
flightVars == <<held, flights>>
wireVars == <<conn, handle>>
vars == <<phase, statusCode, body, joined, emitted, delivered, uncaught,
          errArgs, errOut, call, invoked, client, last, clients, done,
          held, flights, conn, handle>>

----------------------------------------------------------------------------
(* JavaScript values *)

\* a value is the pair <<type tag, payload>>
Undefined == <<"undefined", <<>>>>
Null == <<"null", <<>>>>
NaN == <<"NaN", <<>>>>
Num(n) == <<"num", n>>
Str(s) == <<"str", s>>
Bool(b) == <<"bool", b>>
Obj(pairs) == <<"obj", pairs>>
Fn(id) == <<"function", id>>
Tag(x) == x[1]
Val(x) == x[2]

\* typeof x
TypeOf(x) ==
  CASE Tag(x) = "undefined" -> "undefined"
    [] Tag(x) = "str" -> "string"
    [] Tag(x) \in {"num", "NaN"} -> "number"
    [] Tag(x) = "bool" -> "boolean"
    [] Tag(x) = "function" -> "function"
    [] OTHER -> "object"

\* ToBoolean, as `if (x)`, `x && y` and `!x` apply it
Truthy(x) ==
  CASE Tag(x) = "undefined" -> FALSE
    [] Tag(x) = "null" -> FALSE
    [] Tag(x) = "NaN" -> FALSE
    [] Tag(x) = "num" -> Val(x) # 0
    [] Tag(x) = "str" -> Val(x) # <<>>
    [] Tag(x) = "bool" -> Val(x)
    [] OTHER -> TRUE

\* obj[key] for a key given as text: the last member of that name
GetProp(x, key) ==
  IF Tag(x) = "obj" /\ \E i \in 1..Len(Val(x)) : Val(x)[i][1] = key
  THEN Val(x)[CHOOSE i \in 1..Len(Val(x)) :
                /\ Val(x)[i][1] = key
                /\ \A j \in (i + 1)..Len(Val(x)) : Val(x)[j][1] # key][2]
  ELSE Undefined

DQ == "dq"
Digits == <<"0", "1", "2", "3", "4", "5", "6", "7", "8", "9">>
IsDigit(c) == \E d \in 1..10 : Digits[d] = c
DigitVal(c) == (CHOOSE d \in 1..10 : Digits[d] = c) - 1

RECURSIVE DigitsValue(_)
DigitsValue(s) ==
  IF s = <<>> THEN 0
  ELSE 10 * DigitsValue(SubSeq(s, 1, Len(s) - 1)) + DigitVal(s[Len(s)])

\* Number(x)
ToNumber(x) ==
  CASE Tag(x) = "num" -> x
    [] Tag(x) = "null" -> Num(0)
    [] Tag(x) = "bool" -> Num(IF Val(x) THEN 1 ELSE 0)
    [] Tag(x) = "str" ->
         IF \A i \in 1..Len(Val(x)) : IsDigit(Val(x)[i])
         THEN Num(DigitsValue(Val(x))) ELSE NaN
    [] OTHER -> NaN

----------------------------------------------------------------------------
(* JSON.parse on the subset of JSON the model's texts use: strings without *)
(* escapes, unsigned integers, null, true, and objects of these; blanks    *)
(* between tokens are skipped.                                             *)

ParseFail == [ok |-> FALSE, v |-> Undefined, i |-> 0]
ParseOk(val, next) == [ok |-> TRUE, v |-> val, i |-> next]

RECURSIVE SkipWs(_, _)
SkipWs(s, i) == IF i <= Len(s) /\ s[i] = " " THEN SkipWs(s, i + 1) ELSE i

\* the index of the first double quote at or after i, or 0
RECURSIVE ScanQuote(_, _)
ScanQuote(s, i) ==
  IF i > Len(s) THEN 0 ELSE IF s[i] = DQ THEN i ELSE ScanQuote(s, i + 1)

\* the first index at or after i that holds no digit
RECURSIVE ScanDigits(_, _)
ScanDigits(s, i) ==
  IF i <= Len(s) /\ IsDigit(s[i]) THEN ScanDigits(s, i + 1) ELSE i

ParseString(s, i) ==
  LET j == ScanQuote(s, i + 1)
  IN IF j = 0 THEN ParseFail ELSE ParseOk(Str(SubSeq(s, i + 1, j - 1)), j + 1)

ParseNumber(s, i) ==
  LET j == ScanDigits(s, i)
  IN IF s[i] = "0" /\ j > i + 1 THEN ParseFail
     ELSE ParseOk(Num(DigitsValue(SubSeq(s, i, j - 1))), j)

HasWord(s, i, w) == i + Len(w) - 1 <= Len(s) /\ SubSeq(s, i, i + Len(w) - 1) = w

RECURSIVE ParseValue(_, _), ParseMembers(_, _, _)
ParseValue(s, i0) ==
  LET i == SkipWs(s, i0)
  IN IF i > Len(s) THEN ParseFail
     ELSE IF s[i] = DQ THEN ParseString(s, i)
     ELSE IF IsDigit(s[i]) THEN ParseNumber(s, i)
     ELSE IF HasWord(s, i, <<"n", "u", "l", "l">>) THEN ParseOk(Null, i + 4)
     ELSE IF HasWord(s, i, <<"t", "r", "u", "e">>) THEN ParseOk(Bool(TRUE), i + 4)
     ELSE IF s[i] = "{"
       THEN LET k == SkipWs(s, i + 1)
            IN IF k <= Len(s) /\ s[k] = "}" THEN ParseOk(Obj(<<>>), k + 1)
               ELSE ParseMembers(s, k, <<>>)
     ELSE ParseFail

\* the members of an object from the key at i on; acc holds those read
ParseMembers(s, i, acc) ==
  IF i > Len(s) \/ s[i] # DQ THEN ParseFail
  ELSE LET key == ParseString(s, i)
       IN IF ~key.ok THEN ParseFail
          ELSE LET c == SkipWs(s, key.i)
               IN IF c > Len(s) \/ s[c] # ":" THEN ParseFail
                  ELSE LET val == ParseValue(s, c + 1)
                       IN IF ~val.ok THEN ParseFail
                          ELSE LET d == SkipWs(s, val.i)
                                   more == Append(acc, <<Val(key.v), val.v>>)
                               IN IF d > Len(s) THEN ParseFail
                                  ELSE IF s[d] = "}" THEN ParseOk(Obj(more), d + 1)
                                  ELSE IF s[d] = ","
                                    THEN ParseMembers(s, SkipWs(s, d + 1), more)
                                  ELSE ParseFail

\* JSON.parse(x): ok, or a SyntaxError was thrown
JSONparse(x) ==
  IF Tag(x) # "str" THEN [ok |-> FALSE, v |-> Undefined]
  ELSE LET r == ParseValue(Val(x), 1)
       IN IF r.ok /\ SkipWs(Val(x), r.i) > Len(Val(x))
          THEN [ok |-> TRUE, v |-> r.v]
          ELSE [ok |-> FALSE, v |-> Undefined]

----------------------------------------------------------------------------
(* Text helpers *)

RECURSIVE Join(_)
Join(chunks) == IF chunks = <<>> THEN <<>> ELSE Head(chunks) \o Join(Tail(chunks))

\* the index of the first c in s, or 0 (String.prototype.indexOf, plus one)
RECURSIVE IndexOf(_, _, _)
IndexOf(s, c, i) ==
  IF i > Len(s) THEN 0 ELSE IF s[i] = c THEN i ELSE IndexOf(s, c, i + 1)

\* s.replace(c, d) with a string pattern: the first occurrence only
ReplaceFirst(s, c, d) ==
  LET i == IndexOf(s, c, 1)
  IN IF i = 0 THEN s ELSE [s EXCEPT ![i] = d]

Quoted(s) == <<DQ>> \o s \o <<DQ>>
KeyError == <<"e", "r", "r", "o", "r">>
KeyReason == <<"r", "e", "a", "s", "o", "n">>
NoReason == <<"n", "o", " ", "r", "e", "a", "s", "o", "n">>

----------------------------------------------------------------------------
(* The error classifier: defineError and makeError of src/lib/couchdb.js *)

\* the table with the case for 406 left out
ErrorName_Without406(code) ==
  CASE code = 400 -> "BadRequest"
    [] code = 401 -> "Unauthorized"
    [] code = 403 -> "Forbidden"
    [] code = 404 -> "NotFound"
    [] code = 409 -> "Conflict"
    [] code = 412 -> "PreconditionFailed"
    [] code = 415 -> "BadContentType"
    [] code = 416 -> "RangeNotSatisfiable"
    [] code = 417 -> "ExpectationFailed"
    [] code = 500 -> "ServerError"
    [] OTHER -> "HttpError"

ErrorName(code) ==
  CASE code = 400 -> "BadRequest"
    [] code = 401 -> "Unauthorized"
    [] code = 403 -> "Forbidden"
    [] code = 404 -> "NotFound"
    [] code = 406 -> "NotAcceptable"
    [] code = 409 -> "Conflict"
    [] code = 412 -> "PreconditionFailed"
    [] code = 415 -> "BadContentType"
    [] code = 416 -> "RangeNotSatisfiable"
    [] code = 417 -> "ExpectationFailed"
    [] code = 500 -> "ServerError"
    [] OTHER -> "HttpError"

\* switch (statusCode) compares with ===, so only a number meets a case
defineError(code) ==
  [code |-> ToNumber(code),
   name |-> IF Tag(code) = "num" THEN ErrorName(Val(code)) ELSE "HttpError",
   message |-> Undefined]

\* [threw, error]: threw when .replace is called on a value that has none
makeError(code, text) ==
  LET error == defineError(code)
      parsed == JSONparse(text)
      json == parsed.v
      caught == IF parsed.ok THEN Undefined ELSE text
      err == GetProp(json, KeyError)
      reason == GetProp(json, KeyReason)
  IN IF Truthy(json) /\ Truthy(err)
     THEN IF Tag(err) # "str" \/ (Truthy(reason) /\ Tag(reason) # "str")
          THEN [threw |-> TRUE, error |-> error]
          ELSE [threw |-> FALSE,
                error |-> [error EXCEPT !.message =
                  Str(ReplaceFirst(Val(err), "_", " ") \o <<":", " ">> \o
                      (IF Truthy(reason) THEN ReplaceFirst(Val(reason), "_", " ")
                       ELSE NoReason))]]
     ELSE [threw |-> FALSE,
           error |-> [error EXCEPT !.message =
                        IF ~Truthy(caught) THEN text ELSE caught]]

----------------------------------------------------------------------------
(* The error classifier called on its own, as the tests of defineError and *)
(* makeError call it: every code 0..MaxCode, a text that is no number and  *)
(* a missing argument; bodies as a CouchDB sends them (an error document   *)
(* with text members), other JSON, and text that is no JSON.               *)

MaxCode == 999

ErrorDoc(e) == <<"{">> \o Quoted(KeyError) \o <<":">> \o Quoted(e) \o <<"}">>
ErrorReasonDoc(e, r) ==
  <<"{">> \o Quoted(KeyError) \o <<":">> \o Quoted(e) \o <<",">> \o
  Quoted(KeyReason) \o <<":">> \o Quoted(r) \o <<"}">>
ReasonDoc(r) == <<"{">> \o Quoted(KeyReason) \o <<":">> \o Quoted(r) \o <<"}">>

NotFoundText == <<"n", "o", "t", "_", "f", "o", "u", "n", "d">>
MissingText == <<"m", "i", "s", "s", "i", "n", "g">>
Broken == <<"{", " ", "b", "r", "o", "k", "e", "n", " ", "}">>

ErrorTexts == {<<"a">>, <<"a", "_", "b">>, <<"a", "_", "b", "_", "c">>, NotFoundText}
ReasonTexts == {<<"x">>, <<"x", "_", "y", "_", "z">>, MissingText}

CodeInputs == {Num(n) : n \in 0..MaxCode} \cup {Str(<<"x">>), Undefined}
BodyInputs ==
  {Str(ErrorDoc(e)) : e \in ErrorTexts} \cup
  {Str(ErrorReasonDoc(e, r)) : e \in {<<"a", "_", "b", "_", "c">>, NotFoundText},
                               r \in ReasonTexts} \cup
  {Str(ReasonDoc(MissingText)), Str(Broken), Str(<<"m", "_", "s", "_", "g">>),
   Str(<<"n", "u", "l", "l">>), Str(<<"4", "2">>), Str(Quoted(<<"s">>)),
   Str(<<>>), Undefined}

NotCalled == [called |-> FALSE, threw |-> FALSE, error |-> defineError(Undefined)]

\* the classifier's variables when its calls are not what is modelled
ErrorIdle ==
  /\ errArgs = [code |-> Undefined, body |-> Undefined]
  /\ errOut = [define |-> NotCalled, make |-> NotCalled]

CallDefineError ==
  /\ ~errOut.define.called
  /\ errOut' = [errOut EXCEPT !.define =
       [called |-> TRUE, threw |-> FALSE, error |-> defineError(errArgs.code)]]
  /\ UNCHANGED <<errArgs, decoderVars, dispatchVars, requestVars, lifecycleVars, flightVars, wireVars>>

CallMakeError ==
  /\ ~errOut.make.called
  /\ errOut' = [errOut EXCEPT !.make =
       [called |-> TRUE] @@ makeError(errArgs.code, errArgs.body)]
  /\ UNCHANGED <<errArgs, decoderVars, dispatchVars, requestVars, lifecycleVars, flightVars, wireVars>>

----------------------------------------------------------------------------
(* One JSON-mode request: the response handlers requestJson installs       *)
(* (src/lib/couchdb.js, lines 318-356).  The response delivers data, end   *)
(* and close in any order; end and close at most once each.                *)

MaxData == 2

Event(ev, arg) == [ev |-> ev, arg |-> arg]
Err(record) == <<"error", record>>
\* what JSON.parse throws; its message is the engine's and is left open
SyntaxError == Err([code |-> Undefined, name |-> "SyntaxError", message |-> Undefined])

Statuses == {200, 399, 400, 404}
Fragments ==
  {<<>>,
   <<"{">> \o Quoted(KeyError) \o <<":">> \o Quoted(<<"a", "_", "b", "_", "c">>),
   <<"}">>,
   <<"1">>,
   Quoted(<<"s">>),
   Broken,
   ErrorReasonDoc(NotFoundText, MissingText)}
\* what a close of the connection carries (`err` of the 'close' event)
ClosePayloads == {Str(<<"e", "r", "r">>)}

\* a 'data' handler that closes the sequence at a fragment that does not parse
DataEvents_CloseOnFailure(chunk) ==
  LET parsed == JSONparse(Str(chunk))
  IN IF parsed.ok THEN <<Event("chunk", parsed.v)>>
     ELSE <<Event("close", SyntaxError)>>

\* response.on('data', ...): the events emitted for one fragment
DataEvents(chunk) ==
  LET parsed == JSONparse(Str(chunk))
  IN IF parsed.ok THEN <<Event("chunk", parsed.v)>> ELSE <<>>

\* EndEvents without the emit of 'end' after 'data'
EndEvents_NoEnd(status, text) ==
  IF status < 400
  THEN LET parsed == JSONparse(Str(text))
       IN IF parsed.ok
          THEN <<Event("data", parsed.v)>>
          ELSE <<Event("body", Str(text)), Event("close", SyntaxError)>>
  ELSE <<Event("close", Err(makeError(Num(status), Str(text)).error))>>

\* EndEvents whose catch block emits the error alone, without the body
EndEvents_NoBody(status, text) ==
  IF status < 400
  THEN LET parsed == JSONparse(Str(text))
       IN IF parsed.ok
          THEN <<Event("data", parsed.v), Event("end", Undefined)>>
          ELSE <<Event("close", SyntaxError)>>
  ELSE <<Event("close", Err(makeError(Num(status), Str(text)).error))>>

\* EndEvents that classifies by the status alone, leaving the body unread
EndEvents_NoMessage(status, text) ==
  IF status < 400
  THEN LET parsed == JSONparse(Str(text))
       IN IF parsed.ok
          THEN <<Event("data", parsed.v), Event("end", Undefined)>>
          ELSE <<Event("body", Str(text)), Event("close", SyntaxError)>>
  ELSE <<Event("close", Err(defineError(Num(status))))>>

\* response.on('end', ...): the events emitted for the joined body
EndEvents(status, text) ==
  IF status < 400
  THEN LET parsed == JSONparse(Str(text))
       IN IF parsed.ok
          THEN <<Event("data", parsed.v), Event("end", Undefined)>>
          ELSE <<Event("body", Str(text)), Event("close", SyntaxError)>>
  ELSE LET made == makeError(Num(status), Str(text))
       IN IF made.threw THEN <<>> ELSE <<Event("close", Err(made.error))>>

\* a close handler that forwards nothing
CloseEvents_Dropped(err) == <<>>

\* response.on('close', ...)
CloseEvents(err) == <<Event("close", err)>>

Delivery(ev) == [ev |-> ev, at |-> Len(emitted), chunk |-> <<>>]
Count(ev) == Cardinality({i \in 1..Len(delivered) : delivered[i].ev = ev})
ended == Count("end") > 0
closed == Count("close") > 0

\* requestJson has issued the request; no response yet
DecoderStart ==
  /\ phase = "sent" /\ statusCode = 0 /\ body = <<>> /\ joined = FALSE
  /\ emitted = <<>> /\ delivered = <<>> /\ uncaught = FALSE

\* the decoder's variables when no JSON-mode request is modelled
DecoderIdle ==
  /\ phase = "none" /\ statusCode = 0 /\ body = <<>> /\ joined = FALSE
  /\ emitted = <<>> /\ delivered = <<>> /\ uncaught = FALSE

\* the response arrives: requestJson's callback hands the emitter to the
\* caller and installs the three handlers
Response(status) ==
  /\ phase = "sent"
  /\ phase' = "open"
  /\ statusCode' = status
  /\ UNCHANGED <<body, joined, emitted, delivered, uncaught, errorVars, dispatchVars, requestVars, lifecycleVars, flightVars, wireVars>>

\* a fragment arrives; body.push throws once body is the joined string
ResponseData(chunk) ==
  /\ phase = "open"
  /\ Count("data") < MaxData
  /\ delivered' = Append(delivered, [Delivery("data") EXCEPT !.chunk = chunk])
  /\ IF chunk # <<>> /\ joined
     THEN /\ uncaught' = TRUE
          /\ UNCHANGED <<body, emitted>>
     ELSE /\ body' = IF chunk # <<>> THEN Append(body, chunk) ELSE body
          /\ emitted' = emitted \o DataEvents(chunk)
          /\ UNCHANGED uncaught
  /\ UNCHANGED <<phase, statusCode, joined, errorVars, dispatchVars, requestVars, lifecycleVars, flightVars, wireVars>>

ResponseEnd ==
  /\ phase = "open"
  /\ ~ended
  /\ delivered' = Append(delivered, Delivery("end"))
  /\ joined' = TRUE
  /\ emitted' = emitted \o EndEvents(statusCode, Join(body))
  /\ uncaught' = (uncaught \/ (statusCode >= 400 /\
                   makeError(Num(statusCode), Str(Join(body))).threw))
  /\ UNCHANGED <<phase, statusCode, body, errorVars, dispatchVars, requestVars, lifecycleVars, flightVars, wireVars>>

ResponseClose(err) ==
  /\ phase = "open"
  /\ ~closed
  /\ delivered' = Append(delivered, Delivery("close"))
  /\ emitted' = emitted \o CloseEvents(err)
  /\ UNCHANGED <<phase, statusCode, body, joined, uncaught, errorVars, dispatchVars, requestVars, lifecycleVars, flightVars, wireVars>>

----------------------------------------------------------------------------
(* The verb methods and _doRequest of both clients.  A fixed word (a method *)
(* name) is a text of one indivisible character.                            *)

\* an options object {host, port, method, path, query, headers}; a member
\* the caller left out is Undefined
Options(members) == <<"options", members>>
NoMembers ==
  [host |-> Undefined, port |-> Undefined, method |-> Undefined,
   path |-> Undefined, query |-> Undefined, headers |-> Undefined]
Method(name) == Str(<<name>>)
\* {} as a key -> value mapping
EmptyMap == Obj(<<>>)
Noop == Fn("noop")

Thrown == [threw |-> TRUE, calls |-> <<>>]
Transport(name, method, target, options, data, headers, cb) ==
  [threw |-> FALSE,
   calls |-> <<[transport |-> name, method |-> method, target |-> target,
                options |-> options, data |-> data, headers |-> headers,
                cb |-> cb]>>]

\* _doRequest choosing the raw transport for any truthy flag
CouchDoRequest_Truthy(method, opts, data, cb, raw) ==
  LET o == IF TypeOf(opts) = "string"
           THEN Options([NoMembers EXCEPT !.path = opts]) ELSE opts
  IN IF Tag(o) # "options" THEN Thrown
     ELSE Transport(IF Truthy(raw) THEN "request" ELSE "requestJson",
                    method, Options([Val(o) EXCEPT !.method = Method(method)]),
                    Undefined, data, Undefined, cb)

\* CouchClient.prototype._doRequest (src/lib/couchdb.js)
CouchDoRequest(method, opts, data, cb, raw) ==
  LET o == IF TypeOf(opts) = "string"
           THEN Options([NoMembers EXCEPT !.path = opts]) ELSE opts
  IN IF Tag(o) # "options" THEN Thrown
     ELSE Transport(IF raw = Bool(TRUE) THEN "request" ELSE "requestJson",
                    method, Options([Val(o) EXCEPT !.method = Method(method)]),
                    Undefined, data, Undefined, cb)

VerbMethod(verb) ==
  CASE verb = "copy" -> "COPY"
    [] verb \in {"delete", "del"} -> "DELETE"
    [] verb = "get" -> "GET"
    [] verb = "head" -> "HEAD"
    [] verb = "post" -> "POST"
    [] verb = "put" -> "PUT"

\* CouchClient.prototype.copy, delete, get, head (options, callback, raw)
CouchBodyless(verb, options, callback, raw) ==
  CouchDoRequest(VerbMethod(verb), options, Null, callback, raw)

\* CouchClient.prototype.post, put (options, callback, data, raw)
CouchBodyful(verb, options, callback, data, raw) ==
  IF TypeOf(data) = "boolean"
  THEN CouchDoRequest(VerbMethod(verb), options, Null, callback, data)
  ELSE CouchDoRequest(VerbMethod(verb), options, data, callback, raw)

\* args.push(x) guarded by `x !== undefined`
PushDefined(args, x) == IF x # Undefined THEN Append(args, x) ELSE args

\* Connection.prototype._doRequest (src/etc/couchdb.js): args are the
\* arguments after the selector; path is this.path
ConnDoRequest(path, method, selector, args) ==
  LET sel == IF selector # <<>> /\ selector[1] = "/" /\
                path # <<>> /\ path[Len(path)] = "/"
             THEN Tail(selector) ELSE selector
      n == Len(args)
      raw0 == IF n >= 1 THEN args[n] ELSE Undefined
      cb0 == IF n >= 2 THEN args[n - 1] ELSE Undefined
      rest == IF n >= 2 THEN SubSeq(args, 1, n - 2) ELSE <<>>
      got == IF TypeOf(raw0) = "boolean"
             THEN IF TypeOf(cb0) # "function"
                  THEN [args |-> PushDefined(rest, cb0), cb |-> Noop, raw |-> raw0]
                  ELSE [args |-> rest, cb |-> cb0, raw |-> raw0]
             ELSE IF TypeOf(raw0) = "function"
             THEN [args |-> PushDefined(rest, cb0), cb |-> raw0, raw |-> Bool(FALSE)]
             ELSE [args |-> PushDefined(PushDefined(rest, cb0), raw0),
                   cb |-> Noop, raw |-> Bool(FALSE)]
      raw == IF ~Truthy(got.raw) /\ method = "HEAD" THEN Bool(TRUE) ELSE got.raw
      \* args.unshift() adds nothing and returns the length of args
      unshifted == Num(Len(got.args))
      options == IF Truthy(unshifted) THEN unshifted ELSE Null
      data == IF method \in {"POST", "PUT"}
              THEN (IF Truthy(unshifted) THEN unshifted ELSE Null) ELSE Null
      headers == IF Truthy(unshifted) THEN unshifted ELSE EmptyMap
  IN IF Len(got.args) # 0 THEN Thrown
     ELSE Transport(IF raw = Bool(TRUE) THEN "_requestRaw" ELSE "_requestJson",
                    method, Str(sel), options, data, headers, got.cb)

\* Connection.prototype.copy, del, get, head, post, put
ConnVerb(path, verb, selector, args) ==
  ConnDoRequest(path, VerbMethod(verb), selector, args)

(* the calls that are made *)
Callbacks == {Fn("cb"), Undefined}
RawFlags == {Undefined, Bool(TRUE), Bool(FALSE), Num(1)}
DbPath == <<"d", "b">>
Selectors == {DbPath, <<"/">> \o DbPath}
CouchOptions ==
  {Str(sel) : sel \in Selectors} \cup
  {Options([NoMembers EXCEPT !.path = Str(DbPath)]),
   Options([NoMembers EXCEPT !.path = Str(DbPath), !.method = Method("GET")])}
DataValues == {Undefined, Str(<<"d", "a", "t", "a">>), Obj(<<>>), Bool(TRUE), Bool(FALSE)}
ConnPaths == {<<"/">>, <<"/">> \o DbPath}
\* Connection arguments after the selector: [options [, data] [, headers]]
ConnLeading ==
  {<<>>, <<Obj(<<>>)>>, <<Obj(<<>>), Str(<<"d">>)>>,
   <<Obj(<<>>), Str(<<"d">>), Obj(<<>>)>>}
ConnTrailing ==
  {<<>>, <<Fn("cb")>>, <<Bool(TRUE)>>, <<Bool(FALSE)>>,
   <<Fn("cb"), Bool(TRUE)>>, <<Fn("cb"), Bool(FALSE)>>}

NoCall == [variant |-> "none", verb |-> "none", path |-> <<>>,
           target |-> Undefined, args |-> <<>>]
DispatchIdle ==
  /\ call = NoCall
  /\ invoked = [threw |-> FALSE, calls |-> <<>>]

\* client.copy | delete | get | head (options, callback, raw)
CouchClientBodyless(verb, options, callback, raw) ==
  /\ call = NoCall
  /\ call' = [variant |-> "CouchClient", verb |-> verb, path |-> <<>>,
              target |-> options, args |-> <<callback, raw>>]
  /\ invoked' = CouchBodyless(verb, options, callback, raw)
  /\ UNCHANGED <<decoderVars, errorVars, requestVars, lifecycleVars, flightVars, wireVars>>

\* client.post | put (options, callback, data, raw)
CouchClientBodyful(verb, options, callback, data, raw) ==
  /\ call = NoCall
  /\ call' = [variant |-> "CouchClient", verb |-> verb, path |-> <<>>,
              target |-> options, args |-> <<callback, data, raw>>]
  /\ invoked' = CouchBodyful(verb, options, callback, data, raw)
  /\ UNCHANGED <<decoderVars, errorVars, requestVars, lifecycleVars, flightVars, wireVars>>

\* connection.copy | del | get | head | post | put (selector, ...args)
ConnectionVerb(path, verb, selector, args) ==
  /\ call = NoCall
  /\ call' = [variant |-> "Connection", verb |-> verb, path |-> path,
              target |-> Str(selector), args |-> args]
  /\ invoked' = ConnVerb(path, verb, selector, args)
  /\ UNCHANGED <<decoderVars, errorVars, requestVars, lifecycleVars, flightVars, wireVars>>

----------------------------------------------------------------------------
(* Objects as ordered key -> value members, and the platform's text         *)
(* conversions the client calls (JSON.stringify, Buffer.byteLength,         *)
(* querystring, url.parse), on the subset of inputs the model uses          *)

Arr(bytes) == <<"array", bytes>>
Buf(bytes) == <<"buffer", bytes>>

HasKey(x, key) == Tag(x) = "obj" /\ \E i \in 1..Len(Val(x)) : Val(x)[i][1] = key
Keys(x) == {Val(x)[i][1] : i \in 1..Len(Val(x))}

\* obj[key] = value
SetProp(x, key, value) ==
  IF HasKey(x, key)
  THEN Obj([i \in 1..Len(Val(x)) |->
              IF Val(x)[i][1] = key THEN <<key, value>> ELSE Val(x)[i]])
  ELSE Obj(Append(Val(x), <<key, value>>))

\* obj[key] = undefined in place of delete obj[key]
DeleteProp_Assigned(x, key) ==
  IF HasKey(x, key) THEN SetProp(x, key, Undefined) ELSE x

\* delete obj[key]
DeleteProp(x, key) == Obj(SelectSeq(Val(x), LAMBDA m : m[1] # key))

\* a || b
Or(a, b) == IF Truthy(a) THEN a ELSE b

\* '' + n for a natural number
RECURSIVE TextOfNat(_)
TextOfNat(n) ==
  IF n < 10 THEN <<Digits[n + 1]>>
  ELSE TextOfNat(n \div 10) \o <<Digits[(n % 10) + 1]>>

RECURSIVE JoinWith(_, _)
JoinWith(chunks, sep) ==
  IF chunks = <<>> THEN <<>>
  ELSE IF Len(chunks) = 1 THEN chunks[1]
  ELSE chunks[1] \o sep \o JoinWith(Tail(chunks), sep)

RECURSIVE Split(_, _)
Split(s, sep) ==
  LET i == IndexOf(s, sep, 1)
  IN IF i = 0 THEN <<s>>
     ELSE <<SubSeq(s, 1, i - 1)>> \o Split(SubSeq(s, i + 1, Len(s)), sep)

\* the UTF-8 encoding of a character, each byte named by its character or
\* its two hexadecimal digits
Utf8Char(c) == IF c = "eacute" THEN <<"C3", "A9">> ELSE <<c>>
Utf8(s) == Join([i \in 1..Len(s) |-> Utf8Char(s[i])])

\* Buffer.byteLength counting every character as one byte
ByteLength_Chars(s) == Len(s)

\* Buffer.byteLength(s)
ByteLength(s) == Len(Utf8(s))

TextTrue == <<"t", "r", "u", "e">>
TextFalse == <<"f", "a", "l", "s", "e">>
TextNull == <<"n", "u", "l", "l">>

JsonChar(c) ==
  IF c = DQ THEN <<"bslash", DQ>>
  ELSE IF c = "bslash" THEN <<"bslash", "bslash">> ELSE <<c>>
JsonString(s) == Quoted(Join([i \in 1..Len(s) |-> JsonChar(s[i])]))

\* JSON.stringify(x) for x other than undefined and functions
RECURSIVE JSONstringify(_), JsonMembers(_, _)
JSONstringify(x) ==
  CASE Tag(x) = "str" -> JsonString(Val(x))
    [] Tag(x) = "num" -> TextOfNat(Val(x))
    [] Tag(x) = "bool" -> (IF Val(x) THEN TextTrue ELSE TextFalse)
    [] Tag(x) = "obj" -> <<"{">> \o JsonMembers(Val(x), TRUE) \o <<"}">>
    [] Tag(x) = "array" ->
         <<"[">> \o JoinWith([i \in 1..Len(Val(x)) |-> TextOfNat(Val(x)[i])], <<",">>)
                 \o <<"]">>
    [] OTHER -> TextNull

\* the members whose value is neither undefined nor a function
JsonMembers(members, first) ==
  IF members = <<>> THEN <<>>
  ELSE IF Tag(members[1][2]) \in {"undefined", "function"}
  THEN JsonMembers(Tail(members), first)
  ELSE (IF first THEN <<>> ELSE <<",">>)
         \o JsonString(members[1][1]) \o <<":">> \o JSONstringify(members[1][2])
         \o JsonMembers(Tail(members), FALSE)

\* the characters encodeURIComponent escapes, with their escapes
Escapes ==
  << <<" ", <<"%", "2", "0">>>>, <<"&", <<"%", "2", "6">>>>,
     <<"=", <<"%", "3", "D">>>>, <<"?", <<"%", "3", "F">>>>,
     <<"/", <<"%", "2", "F">>>>, <<":", <<"%", "3", "A">>>>,
     <<"@", <<"%", "4", "0">>>>, <<"%", <<"%", "2", "5">>>>,
     <<"#", <<"%", "2", "3">>>>, <<"dq", <<"%", "2", "2">>>>,
     <<"{", <<"%", "7", "B">>>>, <<"}", <<"%", "7", "D">>>>,
     <<"eacute", <<"%", "C", "3", "%", "A", "9">>>> >>

\* querystring.escape
EscapeChar(c) ==
  IF \E e \in 1..Len(Escapes) : Escapes[e][1] = c
  THEN Escapes[CHOOSE e \in 1..Len(Escapes) : Escapes[e][1] = c][2]
  ELSE <<c>>
Escape(s) == Join([i \in 1..Len(s) |-> EscapeChar(s[i])])

\* querystring.unescape
RECURSIVE Unescape(_)
Unescape(s) ==
  IF s = <<>> THEN <<>>
  ELSE IF s[1] = "+" THEN <<" ">> \o Unescape(Tail(s))
  ELSE IF s[1] = "%" /\ \E e \in 1..Len(Escapes) : HasWord(s, 1, Escapes[e][2])
  THEN LET e == CHOOSE e \in 1..Len(Escapes) : HasWord(s, 1, Escapes[e][2])
       IN <<Escapes[e][1]>> \o Unescape(SubSeq(s, Len(Escapes[e][2]) + 1, Len(s)))
  ELSE <<s[1]>> \o Unescape(Tail(s))

\* querystring's stringifyPrimitive
stringifyPrimitive(v) ==
  CASE Tag(v) = "str" -> Val(v)
    [] Tag(v) = "bool" -> (IF Val(v) THEN TextTrue ELSE TextFalse)
    [] Tag(v) = "num" -> TextOfNat(Val(v))
    [] OTHER -> <<>>

\* querystring.stringify(obj)
QsStringify(obj) ==
  IF Tag(obj) # "obj" THEN <<>>
  ELSE JoinWith([i \in 1..Len(Val(obj)) |->
                   Escape(Val(obj)[i][1]) \o <<"=">>
                     \o Escape(stringifyPrimitive(Val(obj)[i][2]))], <<"&">>)

\* querystring.parse(text), the keys of the text being distinct
RECURSIVE QsParseParts(_, _)
QsParseParts(parts, acc) ==
  IF parts = <<>> THEN acc
  ELSE LET kv == parts[1]
           eq == IndexOf(kv, "=", 1)
           key == Unescape(IF eq = 0 THEN kv ELSE SubSeq(kv, 1, eq - 1))
           val == Unescape(IF eq = 0 THEN <<>> ELSE SubSeq(kv, eq + 1, Len(kv)))
       IN QsParseParts(Tail(parts),
                       IF kv = <<>> THEN acc ELSE SetProp(acc, key, Str(val)))
QsParse(text) == QsParseParts(Split(text, "&"), Obj(<<>>))

\* the characters that end the scheme of a URL
UrlPunct == {":", "/", "?", "#", "@", "&", "=", " ", "%"}

RECURSIVE ScanScheme(_, _)
ScanScheme(s, i) ==
  IF i <= Len(s) /\ s[i] \notin UrlPunct THEN ScanScheme(s, i + 1) ELSE i

\* the first index at or after i that holds one of stops, or Len(s) + 1
RECURSIVE ScanTo(_, _, _)
ScanTo(s, i, stops) ==
  IF i > Len(s) \/ s[i] \in stops THEN i ELSE ScanTo(s, i + 1, stops)

StrOrUndefined(s) == IF s = <<>> THEN Undefined ELSE Str(s)

\* url.parse(s) for s of the shape [scheme://[auth@]host[:port]][path][?query],
\* in the steps of the parser: scheme, host part, auth, port, path and query
UrlPort(host) ==
  LET HasPort(i) == /\ host[i] = ":"
                    /\ i < Len(host)
                    /\ \A k \in (i + 1)..Len(host) : IsDigit(host[k])
  IN IF \E i \in 1..Len(host) : HasPort(i)
     THEN CHOOSE i \in 1..Len(host) : HasPort(i) ELSE 0

UrlParsed(protocol, auth, host, colon, rest, q) ==
  [protocol |-> protocol,
   auth |-> auth,
   host |-> StrOrUndefined(host),
   hostname |-> StrOrUndefined(IF colon > 0 THEN SubSeq(host, 1, colon - 1) ELSE host),
   port |-> IF colon > 0 THEN Str(SubSeq(host, colon + 1, Len(host))) ELSE Undefined,
   pathname |-> StrOrUndefined(SubSeq(rest, 1, q - 1)),
   query |-> IF q <= Len(rest) THEN Str(SubSeq(rest, q + 1, Len(rest))) ELSE Undefined]

UrlParseHost(protocol, auth, host, rest) ==
  UrlParsed(protocol, auth, host, UrlPort(host), rest, ScanTo(rest, 1, {"?"}))

UrlParseAuth(protocol, hostpart, at, rest) ==
  UrlParseHost(protocol,
               IF at > 0 THEN Str(SubSeq(hostpart, 1, at - 1)) ELSE Undefined,
               SubSeq(hostpart, at + 1, Len(hostpart)), rest)

UrlParseRest(s, protocol, h0, hEnd) ==
  UrlParseAuth(protocol, SubSeq(s, h0, hEnd - 1),
               IndexOf(SubSeq(s, h0, hEnd - 1), "@", 1), SubSeq(s, hEnd, Len(s)))

UrlParseSlashes(s, protocol, r, slashes) ==
  UrlParseRest(s, protocol, IF slashes THEN r + 2 ELSE r,
               IF slashes THEN ScanTo(s, r + 2, {"/", "?", "#"}) ELSE r)

UrlParseScheme(s, j, hasProto) ==
  UrlParseSlashes(s, IF hasProto THEN Str(SubSeq(s, 1, j)) ELSE Undefined,
                  IF hasProto THEN j + 1 ELSE 1,
                  hasProto /\ HasWord(s, IF hasProto THEN j + 1 ELSE 1, <<"/", "/">>))

UrlParseFrom(s, j) == UrlParseScheme(s, j, j > 1 /\ j <= Len(s) /\ s[j] = ":")

UrlParse(s) == UrlParseFrom(s, ScanScheme(s, 1))

----------------------------------------------------------------------------
(* CouchClient: its state, setUrl, setCredentials, getPath, getQuery and    *)
(* request (src/lib/couchdb.js)                                             *)

KeyAuthentication == <<"Authentication">>
KeyContentType == <<"Content-Type">>
KeyContentLength == <<"Content-Length">>
DefaultContentType == <<"application/json;charset=utf-8">>

\* before new CouchClient(...) has run
NoClient ==
  [protocol |-> Undefined, options |-> NoMembers, auth_url |-> Undefined,
   default_content_type |-> Undefined]

\* merge with the defaults overriding what the target holds
RECURSIVE merge_DefaultsWin(_, _)
merge_DefaultsWin(obj, into) ==
  IF Val(obj) = <<>> THEN into
  ELSE merge_DefaultsWin(Obj(Tail(Val(obj))),
                         SetProp(into, Val(obj)[1][1], Val(obj)[1][2]))

\* merge(obj, into): into, with the members of obj it does not define
RECURSIVE merge(_, _)
merge(obj, into) ==
  IF Val(obj) = <<>> THEN into
  ELSE merge(Obj(Tail(Val(obj))),
             IF TypeOf(GetProp(into, Val(obj)[1][1])) = "undefined"
             THEN SetProp(into, Val(obj)[1][1], Val(obj)[1][2])
             ELSE into)

\* setCredentials joining user and password whenever the password is a string
setCredentials_PassFirst(c, username, password) ==
  LET Set(auth) ==
        [threw |-> FALSE,
         client |-> [c EXCEPT
                       !.options.headers =
                          SetProp(@, KeyAuthentication, Str(<<"Basic", " ">> \o auth)),
                       !.auth_url = Str(auth \o <<"@">>)]]
  IN IF TypeOf(username) = "string"
     THEN IF TypeOf(password) # "string" /\ IndexOf(Val(username), ":", 1) # 0
          THEN Set(Val(username))
          ELSE IF TypeOf(password) = "string"
          THEN Set(Val(username) \o <<":">> \o Val(password))
          ELSE [threw |-> TRUE, client |-> c]
     ELSE IF Truthy(username) THEN [threw |-> TRUE, client |-> c]
     ELSE [threw |-> FALSE,
           client |-> [c EXCEPT
                         !.auth_url = Str(<<>>),
                         !.options.headers =
                            IF Truthy(GetProp(@, KeyAuthentication))
                            THEN DeleteProp(@, KeyAuthentication) ELSE @]]

\* this.setCredentials(username, password); threw: a TypeError was thrown
setCredentials(c, username, password) ==
  LET Set(auth) ==
        [threw |-> FALSE,
         client |-> [c EXCEPT
                       !.options.headers =
                          SetProp(@, KeyAuthentication, Str(<<"Basic", " ">> \o auth)),
                       !.auth_url = Str(auth \o <<"@">>)]]
  IN IF TypeOf(username) = "string"
     THEN IF ~Truthy(password) /\ IndexOf(Val(username), ":", 1) # 0
          THEN Set(Val(username))
          ELSE IF TypeOf(password) = "string"
          THEN Set(Val(username) \o <<":">> \o Val(password))
          ELSE [threw |-> TRUE, client |-> c]
     ELSE IF Truthy(username) THEN [threw |-> TRUE, client |-> c]
     ELSE [threw |-> FALSE,
           client |-> [c EXCEPT
                         !.auth_url = Str(<<>>),
                         !.options.headers =
                            IF Truthy(GetProp(@, KeyAuthentication))
                            THEN DeleteProp(@, KeyAuthentication) ELSE @]]

\* setUrl taking port 5984 whenever the string gives no port
setUrlParsed_OneDefaultPort(c, parsed) ==
  setCredentials(
    [c EXCEPT
       !.protocol = Or(parsed.protocol, Str(<<"http", ":">>)),
       !.options =
          [host |-> Or(parsed.hostname, Str(<<"localhost">>)),
           port |-> IF Truthy(parsed.port) THEN ToNumber(parsed.port)
                    ELSE Num(5984),
           method |-> Method("GET"),
           path |-> Or(parsed.pathname, Str(<<"/">>)),
           query |-> IF Truthy(parsed.query) THEN QsParse(Val(parsed.query))
                     ELSE Obj(<<>>),
           headers |-> Obj(<<>>)]],
    parsed.auth, Undefined)

\* this.setUrl(url_string), from `parsed` on
setUrlParsed(c, parsed) ==
  setCredentials(
    [c EXCEPT
       !.protocol = Or(parsed.protocol, Str(<<"http", ":">>)),
       !.options =
          [host |-> Or(parsed.hostname, Str(<<"localhost">>)),
           port |-> IF Truthy(parsed.port) THEN ToNumber(parsed.port)
                    ELSE IF Truthy(parsed.host) THEN Num(80) ELSE Num(5984),
           method |-> Method("GET"),
           path |-> Or(parsed.pathname, Str(<<"/">>)),
           query |-> IF Truthy(parsed.query) THEN QsParse(Val(parsed.query))
                     ELSE Obj(<<>>),
           headers |-> Obj(<<>>)]],
    parsed.auth, Undefined)

\* this.setUrl(url_string)
setUrl(c, url_string) ==
  setUrlParsed(c, UrlParse(Val(Or(url_string, Str(<<>>)))))

\* new CouchClient(url_string)
CouchClient(url_string) ==
  setUrl([NoClient EXCEPT !.default_content_type = Str(DefaultContentType)],
         url_string)

\* this.getPath(opt_path)
getPath(c, opt_path) ==
  LET path == Val(c.options.path)
  IN IF Truthy(opt_path)
     THEN (IF Val(opt_path)[1] # "/" /\ path[Len(path)] # "/"
           THEN path \o <<"/">> ELSE path) \o Val(opt_path)
     ELSE path

\* this.getQuery(query_opts): the merged query object and its rendering;
\* threw: merge read a member of null
getQuery(c, query_opts) ==
  LET threw == Tag(query_opts) = "null" /\ Val(c.options.query) # <<>>
      query == IF Tag(query_opts) = "null" THEN Null
               ELSE IF TypeOf(query_opts) = "object"
               THEN merge(c.options.query, query_opts)
               ELSE c.options.query
      text == QsStringify(query)
  IN [threw |-> threw,
      query |-> IF threw THEN Undefined ELSE query,
      text |-> IF threw THEN <<>>
               ELSE IF text # <<>> THEN <<"?">> \o text ELSE text]

\* prepareData measuring text in characters
prepareData_Chars(data, headers) ==
  LET text == IF TypeOf(data) = "string" THEN data
              ELSE IF Tag(data) \in {"array", "buffer"} THEN data
              ELSE Str(JSONstringify(data))
      len == IF Tag(text) = "str" THEN ByteLength_Chars(Val(text)) ELSE Len(Val(text))
  IN [data |-> text,
      headers |-> IF TypeOf(GetProp(headers, KeyContentLength)) = "undefined"
                  THEN SetProp(headers, KeyContentLength, Str(TextOfNat(len)))
                  ELSE headers]

\* prepareData(data, headers): the data to write and the headers as it
\* leaves them
prepareData(data, headers) ==
  LET text == IF TypeOf(data) = "string" THEN data
              ELSE IF Tag(data) \in {"array", "buffer"} THEN data
              ELSE Str(JSONstringify(data))
      len == IF Tag(text) = "str" THEN ByteLength(Val(text)) ELSE Len(Val(text))
  IN [data |-> text,
      headers |-> IF TypeOf(GetProp(headers, KeyContentLength)) = "undefined"
                  THEN SetProp(headers, KeyContentLength, Str(TextOfNat(len)))
                  ELSE headers]

\* this.request(options, data, callback): the module asked for the request,
\* the options it is given and what is written to the request
request(c, options, data, callback) ==
  LET o == IF TypeOf(options) = "string" THEN [NoMembers EXCEPT !.path = options]
           ELSE IF TypeOf(options) # "object" THEN NoMembers
           ELSE Val(options)
      method == Or(o.method, c.options.method)
      query == getQuery(c, o.query)
      merged == merge(c.options.headers, Or(o.headers, Obj(<<>>)))
      withBody == method \in {Method("POST"), Method("PUT")}
      typed == IF withBody /\ TypeOf(GetProp(merged, KeyContentType)) = "undefined"
               THEN SetProp(merged, KeyContentType, c.default_content_type)
               ELSE merged
      prepared == IF withBody /\ Truthy(data) THEN prepareData(data, typed)
                  ELSE [data |-> data, headers |-> typed]
  IN [threw |-> query.threw,
      handle |-> IF c.protocol = Str(<<"https", ":">>) THEN "https" ELSE "http",
      options |-> IF query.threw THEN Undefined
                  ELSE Options([host |-> Or(o.host, c.options.host),
                                port |-> Or(o.port, c.options.port),
                                method |-> method,
                                path |-> Str(getPath(c, o.path) \o query.text),
                                query |-> IF TypeOf(o.query) = "object"
                                          THEN query.query ELSE o.query,
                                headers |-> prepared.headers]),
      written |-> IF ~query.threw /\ Truthy(prepared.data) /\ withBody
                  THEN <<prepared.data>> ELSE <<>>,
      cb |-> callback]

(* the calls that are made *)
UrlPlain == <<"http", ":", "/", "/", "localhost", ":", "5", "9", "8", "4", "/">>
UrlFull ==
  <<"https", ":", "/", "/", "u", ":", "p", "@", "h", "/", "d", "b", "?", "a", "=", "1">>
UrlQuery == <<"http", ":", "/", "/", "h", ":", "8", "/", "d", "b", "/", "?", "a", "=", "x", "%", "2", "0", "y", "&", "c", "=", "3">>
ClientUrls == {Undefined, Str(UrlPlain), Str(UrlFull), Str(UrlQuery)}
Credentials ==
  {<<Undefined, Undefined>>, <<Str(<<"u", ":", "p">>), Undefined>>,
   <<Str(<<"u">>), Str(<<"s">>)>>, <<Str(<<"u">>), Undefined>>,
   <<Num(1), Undefined>>}
HeaderInputs ==
  {Undefined, Obj(<<>>),
   Obj(<< <<KeyAuthentication, Str(<<"m", "i", "n", "e">>)>> >>),
   Obj(<< <<KeyAuthentication, Undefined>> >>),
   Obj(<< <<KeyContentType, Str(<<"text/plain">>)>> >>),
   Obj(<< <<KeyContentLength, Str(<<"9">>)>> >>),
   Obj(<< <<<<"Accept">>, Str(<<"*">>)>>, <<KeyAuthentication, Str(<<>>)>> >>)}
QueryInputs ==
  {Undefined, Null, Obj(<<>>),
   Obj(<< <<<<"a">>, Str(<<"2">>)>> >>),
   Obj(<< <<<<"a">>, Undefined>> >>),
   Obj(<< <<<<"b">>, Str(<<"x", " ", "y">>)>> >>),
   Obj(<< <<<<"b">>, Num(2)>>, <<<<"a">>, Bool(TRUE)>> >>)}
BodyValues ==
  {Undefined, Null, Str(<<>>), Num(0), Num(7), Bool(TRUE),
   Str(<<"a">>), Str(<<"d", "eacute">>), Arr(<<1, 2, 3>>), Buf(<<195, 169>>),
   Obj(<<>>), Obj(<< <<<<"k">>, Str(<<"eacute", DQ>>)>>, <<<<"n">>, Num(10)>> >>)}
Methods == {"COPY", "DELETE", "GET", "HEAD", "POST", "PUT"}
RequestOptions ==
  {Undefined} \cup {Str(sel) : sel \in Selectors} \cup
  {Options([NoMembers EXCEPT !.method = m, !.headers = h, !.path = Str(DbPath)]) :
     m \in {Undefined} \cup {Method(v) : v \in Methods}, h \in HeaderInputs} \cup
  {Options([NoMembers EXCEPT !.path = p, !.query = q, !.method = Method("PUT")]) :
     p \in {Undefined} \cup {Str(sel) : sel \in Selectors}, q \in QueryInputs} \cup
  {Options([NoMembers EXCEPT !.host = Str(<<"other">>), !.port = Num(1)]),
   Options([NoMembers EXCEPT
              !.method = Method("POST"), !.path = Str(DbPath),
              !.headers = Obj(<< <<KeyAuthentication, Str(<<"m", "i", "n", "e">>)>> >>),
              !.query = Obj(<< <<<<"a">>, Str(<<"2">>)>> >>)])}

NoOutcome ==
  [op |-> "none", client |-> NoClient, args |-> <<>>,
   threw |-> FALSE, handle |-> "none", options |-> Undefined, query |-> Undefined,
   text |-> <<>>, written |-> <<>>, cb |-> Undefined]

RequestIdle ==
  /\ client = CouchClient(Undefined).client
  /\ last = NoOutcome

\* client.setUrl(url_string)
SetUrl(url_string) ==
  /\ last.op = "none"
  /\ client' = setUrl(client, url_string).client
  /\ UNCHANGED <<last, decoderVars, errorVars, dispatchVars, lifecycleVars, flightVars, wireVars>>

\* client.setCredentials(username, password)
SetCredentials(username, password) ==
  /\ last.op = "none"
  /\ client' = setCredentials(client, username, password).client
  /\ UNCHANGED <<last, decoderVars, errorVars, dispatchVars, lifecycleVars, flightVars, wireVars>>

\* client.getQuery(query_opts)
GetQuery(query_opts) ==
  /\ last.op = "none"
  /\ LET got == getQuery(client, query_opts)
     IN last' = [NoOutcome EXCEPT !.op = "getQuery", !.client = client,
                                  !.args = <<query_opts>>, !.threw = got.threw,
                                  !.query = got.query, !.text = got.text]
  /\ UNCHANGED <<client, decoderVars, errorVars, dispatchVars, lifecycleVars, flightVars, wireVars>>

\* client.request(options, data, callback)
Request(options, data, callback) ==
  /\ last.op = "none"
  /\ LET req == request(client, options, data, callback)
     IN last' = [NoOutcome EXCEPT !.op = "request", !.client = client,
                                  !.args = <<options, data, callback>>,
                                  !.threw = req.threw, !.handle = req.handle,
                                  !.options = req.options,
                                  !.written = req.written, !.cb = req.cb]
  /\ UNCHANGED <<client, decoderVars, errorVars, dispatchVars, lifecycleVars, flightVars, wireVars>>

----------------------------------------------------------------------------
(* The life of CouchClient instances: construction, setUrl, setCredentials, *)
(* resource, the accessors and requests, on a heap of clients               *)

\* merge(obj, into) writing its first argument instead of its second
mergeSource_Written(obj, into) ==
  IF Tag(into) = "obj" THEN merge_DefaultsWin(into, obj) ELSE obj

\* what merge(obj, into) leaves in obj: merge reads obj and assigns only to
\* members of into
mergeSource(obj, into) == obj

\* the client as getQuery(query_opts) leaves it
getQueryThis(c, query_opts) ==
  IF TypeOf(query_opts) = "object" /\ Tag(query_opts) # "null"
  THEN [c EXCEPT !.options.query = mergeSource(@, query_opts)]
  ELSE c

\* the client as request(options, data, callback) leaves it: request assigns
\* to members of its options argument only
requestThis(c, options) ==
  IF Tag(options) = "options"
  THEN [getQueryThis(c, Val(options).query) EXCEPT
          !.options.headers = mergeSource(@, Or(Val(options).headers, Obj(<<>>)))]
  ELSE c

\* this.getUrl()
getUrl(c) ==
  Val(c.protocol) \o <<"/", "/">> \o Val(c.auth_url) \o Val(c.options.host)
    \o <<":">> \o TextOfNat(Val(c.options.port))
    \o getPath(c, Undefined) \o getQuery(c, Undefined).text

\* the components of resource(...): the members of a single array argument,
\* or the arguments
Components(args) ==
  IF Len(args) = 1 /\ Tag(args[1]) = "array" THEN Val(args[1]) ELSE args

\* the URL that resource builds from encoded components
resourceUrl(c, p, encoded) ==
  Val(c.protocol) \o <<"/", "/">> \o Val(c.auth_url) \o Val(c.options.host)
    \o <<":">> \o TextOfNat(Val(c.options.port)) \o p
    \o JoinWith(IF p[Len(p)] # "/" THEN <<<<>>>> \o encoded ELSE encoded, <<"/">>)
    \o getQuery(c, Undefined).text

\* this.resource(...args): the new client; threw: a component was not a
\* string, or the constructor threw
resource(c, args) ==
  IF \E k \in 1..Len(Components(args)) : TypeOf(Components(args)[k]) # "string"
  THEN [threw |-> TRUE, client |-> NoClient]
  ELSE CouchClient(Str(resourceUrl(
         c, getPath(c, Undefined),
         [k \in 1..Len(Components(args)) |-> Escape(Val(Components(args)[k]))])))

(* the calls that are made *)
MaxClients == 2
MaxOps == 3

UrlBase == <<"http", ":", "/", "/", "h", "/", "base">>
UrlBadAuth == <<"http", ":", "/", "/", "bad", "@", "host">>
FirstUrls == {Undefined, Str(UrlFull), Str(UrlBase)}
NextUrls == {Undefined, Str(UrlFull), Str(UrlBadAuth)}
CredentialCalls ==
  {<<Undefined, Undefined>>, <<Str(<<"u", ":", "p">>), Undefined>>,
   <<Str(<<"u">>), Str(<<"s">>)>>, <<Str(<<"u">>), Str(<<"p", "/", "q">>)>>,
   <<Str(<<"u", ":", "p">>), Str(<<>>)>>, <<Str(<<"u">>), Undefined>>,
   <<Num(1), Num(2)>>, <<Str(<<"u">>), Num(2)>>, <<Obj(<<>>), Undefined>>,
   <<Null, Undefined>>, <<Num(0), Undefined>>, <<Undefined, Str(<<"p">>)>>}
ResourceCalls ==
  {<<>>, <<Str(<<"a">>)>>, <<Str(<<"a">>), Str(<<"b", " ", "c">>)>>,
   <<Arr(<<Str(<<"a">>), Str(<<"b", " ", "c">>)>>)>>,
   <<Str(<<"x", "/", "y">>)>>, <<Num(1)>>}
ClientRequests ==
  {Undefined, Str(<<"x">>),
   Options([NoMembers EXCEPT !.headers = Obj(<< <<<<"X">>, Str(<<"1">>)>> >>),
                             !.query = Obj(<< <<<<"b">>, Num(2)>> >>)])}
KeyAccept == <<"Accept">>
AnyType == Str(<<"*/*">>)

\* connection strings by their parts: <<>> is an absent text part, 0 an
\* absent port, the empty object an absent query
UrlParts ==
  [protocol : {<<>>, <<"https">>}, auth : {<<>>}, host : {<<>>}, port : {0},
   path : {<<>>, <<"/", "d", "b">>}, query : {Obj(<<>>), Obj(<< <<<<"a">>, Str(<<"1">>)>> >>)}]
  \cup
  [protocol : {<<"https">>}, auth : {<<>>, <<"u", ":", "p">>},
   host : {<<"h">>}, port : {0, 8, 1234},
   path : {<<>>, <<"/", "d", "b">>},
   query : {Obj(<<>>), Obj(<< <<<<"a">>, Str(<<"1">>)>> >>)}]

\* the connection string made of the parts
UrlText(parts) ==
  (IF parts.protocol # <<>> THEN parts.protocol \o <<":">> ELSE <<>>)
  \o (IF parts.host # <<>>
      THEN <<"/", "/">>
           \o (IF parts.auth # <<>> THEN parts.auth \o <<"@">> ELSE <<>>)
           \o parts.host
           \o (IF parts.port # 0 THEN <<":">> \o TextOfNat(parts.port) ELSE <<>>)
      ELSE <<>>)
  \o parts.path
  \o (IF Val(parts.query) # <<>>
      THEN <<"?">> \o Val(parts.query)[1][1] \o <<"=">> \o Val(Val(parts.query)[1][2])
      ELSE <<>>)

NoOp ==
  [n |-> 0, op |-> "none", on |-> 0, args |-> <<>>, before |-> NoClient,
   threw |-> FALSE, made |-> 0, text |-> <<>>, array |-> Undefined]
Did(op, i, args, threw) ==
  [NoOp EXCEPT !.n = done.n + 1, !.op = op, !.on = i, !.args = args,
               !.before = clients[i], !.threw = threw]

LifecycleIdle ==
  /\ clients = <<>>
  /\ done = NoOp

\* clients[i].setUrl(url_string)
SetUrlOn(i, url_string) ==
  /\ done.n < MaxOps
  /\ clients' = [clients EXCEPT ![i] = setUrl(@, url_string).client]
  /\ done' = Did("setUrl", i, <<url_string>>, setUrl(clients[i], url_string).threw)
  /\ UNCHANGED <<decoderVars, errorVars, dispatchVars, requestVars, flightVars, wireVars>>

\* clients[i].setCredentials(username, password)
SetCredentialsOn(i, username, password) ==
  /\ done.n < MaxOps
  /\ clients' = [clients EXCEPT ![i] = setCredentials(@, username, password).client]
  /\ done' = Did("setCredentials", i, <<username, password>>,
                 setCredentials(clients[i], username, password).threw)
  /\ UNCHANGED <<decoderVars, errorVars, dispatchVars, requestVars, flightVars, wireVars>>

\* clients[i].resource(...args), the result kept as a further client
ResourceOn(i, args) ==
  /\ done.n < MaxOps
  /\ Len(clients) < MaxClients
  /\ clients' = IF resource(clients[i], args).threw THEN clients
                ELSE Append(clients, resource(clients[i], args).client)
  /\ done' = [Did("resource", i, args, resource(clients[i], args).threw) EXCEPT
                !.made = IF resource(clients[i], args).threw THEN 0
                         ELSE Len(clients) + 1]
  /\ UNCHANGED <<decoderVars, errorVars, dispatchVars, requestVars, flightVars, wireVars>>

\* clients[i].options.headers[key] = value, assigned by the caller
AssignHeaderOn(i, key, value) ==
  /\ done.n < MaxOps
  /\ clients' = [clients EXCEPT ![i].options.headers = SetProp(@, key, value)]
  /\ done' = Did("assignHeader", i, <<Str(key), value>>, FALSE)
  /\ UNCHANGED <<decoderVars, errorVars, dispatchVars, requestVars, flightVars, wireVars>>

\* clients[i].getPath(opt_path)
GetPathOn(i, opt_path) ==
  /\ done.n < MaxOps
  /\ UNCHANGED clients
  /\ done' = [Did("getPath", i, <<opt_path>>, FALSE) EXCEPT
                !.text = getPath(clients[i], opt_path)]
  /\ UNCHANGED <<decoderVars, errorVars, dispatchVars, requestVars, flightVars, wireVars>>

\* clients[i].getQuery(query_opts)
GetQueryOn(i, query_opts) ==
  /\ done.n < MaxOps
  /\ clients' = [clients EXCEPT ![i] = getQueryThis(@, query_opts)]
  /\ done' = [Did("getQuery", i, <<query_opts>>, getQuery(clients[i], query_opts).threw)
                EXCEPT !.text = getQuery(clients[i], query_opts).text]
  /\ UNCHANGED <<decoderVars, errorVars, dispatchVars, requestVars, flightVars, wireVars>>

\* clients[i].getUrl()
GetUrlOn(i) ==
  /\ done.n < MaxOps
  /\ UNCHANGED clients
  /\ done' = [Did("getUrl", i, <<>>, FALSE) EXCEPT !.text = getUrl(clients[i])]
  /\ UNCHANGED <<decoderVars, errorVars, dispatchVars, requestVars, flightVars, wireVars>>

\* clients[i].request(options)
RequestOn(i, options) ==
  /\ done.n < MaxOps
  /\ clients' = [clients EXCEPT ![i] = requestThis(@, options)]
  /\ done' = [Did("request", i, <<options>>,
                  request(clients[i], options, Undefined, Undefined).threw)
                EXCEPT !.text =
                  IF request(clients[i], options, Undefined, Undefined).threw
                  THEN <<>>
                  ELSE Val(Val(request(clients[i], options, Undefined,
                                       Undefined).options).path)]
  /\ UNCHANGED <<decoderVars, errorVars, dispatchVars, requestVars, flightVars, wireVars>>

----------------------------------------------------------------------------
(* Requests in flight on one client *)

FlightIdle ==
  /\ held = Undefined
  /\ flights = <<>>

MaxFlights == 2

\* the request a verb method of the client makes for (options, callback, raw)
verbRequest(c, verb, options, callback, raw) ==
  request(c, CouchBodyless(verb, options, callback, raw).calls[1].target,
          CouchBodyless(verb, options, callback, raw).calls[1].data,
          CouchBodyless(verb, options, callback, raw).calls[1].cb)

\* the options the caller passes: a path, and a headers object that is
\* either the one the caller keeps or a new empty one
FlightOptions(headers) ==
  Options([NoMembers EXCEPT !.path = Str(DbPath), !.headers = headers])

\* the headers object the caller passes with a request
CallHeaders(reuse) == IF reuse THEN held ELSE Obj(<<>>)

\* client.get/head/...(options, callback, raw), after which the caller may
\* attach an 'error' listener to the request that is returned
Dispatch(verb, callback, reuse, raw, listens) ==
  /\ Len(flights) < MaxFlights
  /\ flights' =
       Append(flights,
              [transport |-> CouchBodyless(verb, FlightOptions(CallHeaders(reuse)),
                                           callback, raw).calls[1].transport,
               cb |-> callback,
               given |-> CallHeaders(reuse),
               defaults |-> client.options.headers,
               sent |-> Val(verbRequest(client, verb,
                                        FlightOptions(CallHeaders(reuse)),
                                        callback, raw).options).headers,
               listens |-> listens, state |-> "sent",
               cbCalls |-> 0, handleErrors |-> 0, thrown |-> FALSE,
               decoding |-> FALSE, raised |-> FALSE])
  /\ held' = IF reuse
             THEN Val(verbRequest(client, verb, FlightOptions(held),
                                  callback, raw).options).headers
             ELSE held
  /\ UNCHANGED <<decoderVars, errorVars, dispatchVars, requestVars, lifecycleVars, wireVars>>

\* the 'response' event of a request in flight.  Raw: the http module calls
\* the caller's callback if one was given.  JSON: the function requestJson
\* gave to this.request runs callback(emitter), which raises a TypeError
\* when callback is not a function, and only after it installs the listeners
\* that decode the response
FlightResponse(k) ==
  /\ flights[k].state = "sent"
  /\ flights' =
       [flights EXCEPT
          ![k].state = "responded",
          ![k].cbCalls = IF TypeOf(flights[k].cb) = "function" THEN @ + 1 ELSE @,
          ![k].raised = /\ flights[k].transport = "requestJson"
                        /\ TypeOf(flights[k].cb) # "function",
          ![k].decoding = /\ flights[k].transport = "requestJson"
                          /\ TypeOf(flights[k].cb) = "function"]
  /\ UNCHANGED <<held, decoderVars, errorVars, dispatchVars, requestVars, lifecycleVars, wireVars>>

\* the connection of a request in flight fails: the http module emits
\* 'error' on the request; the client has attached no listener for it, so
\* it reaches the caller's listener if there is one and is thrown otherwise
ConnectionFails(k) ==
  /\ flights[k].state = "sent"
  /\ flights' = [flights EXCEPT
                   ![k].state = "failed",
                   ![k].handleErrors = IF flights[k].listens THEN @ + 1 ELSE @,
                   ![k].thrown = ~flights[k].listens]
  /\ UNCHANGED <<held, decoderVars, errorVars, dispatchVars, requestVars, lifecycleVars, wireVars>>

----------------------------------------------------------------------------
(* One request of a Connection: _requestRaw and _requestJson                *)
(* (src/etc/couchdb.js), the body it writes and the calls of the callback   *)

KeyAuthorization == <<"Authorization">>
KeyTransferEncoding == <<"Transfer-Encoding">>
Chunked == Str(<<"chunked">>)
DefaultType == Str(<<"application/json;charset=utf-8">>)

\* a request body with an `on` property: an emitter that will emit the
\* chunks as 'data' events and then 'end'
Emitter(chunks) == <<"emitter", chunks>>
IsEmitter(data) == Tag(data) = "emitter"

\* if (this.auth && !headers['Authorization']) headers['Authorization'] = this.auth
WithAuthorization(auth, headers) ==
  IF Truthy(auth) /\ ~Truthy(GetProp(headers, KeyAuthorization))
  THEN SetProp(headers, KeyAuthorization, auth) ELSE headers

\* if (!headers['Content-Type']) headers['Content-Type'] = the default
WithContentType(headers) ==
  IF Truthy(GetProp(headers, KeyContentType)) THEN headers
  ELSE SetProp(headers, KeyContentType, DefaultType)

\* _requestRaw setting Content-Length for a streamed body as well
requestRawHeaders_AlwaysLength(auth, data, headers) ==
  IF ~Truthy(data) THEN WithAuthorization(auth, headers)
  ELSE SetProp(IF IsEmitter(data)
               THEN SetProp(WithContentType(WithAuthorization(auth, headers)),
                            KeyTransferEncoding, Chunked)
               ELSE WithContentType(WithAuthorization(auth, headers)),
               KeyContentLength,
               Num(IF IsEmitter(data) THEN 0 ELSE ByteLength(JSONstringify(data))))

\* the headers as _requestRaw sends them
requestRawHeaders(auth, data, headers) ==
  IF ~Truthy(data) THEN WithAuthorization(auth, headers)
  ELSE IF IsEmitter(data)
  THEN SetProp(WithContentType(WithAuthorization(auth, headers)),
               KeyTransferEncoding, Chunked)
  ELSE SetProp(WithContentType(WithAuthorization(auth, headers)),
               KeyContentLength, Num(ByteLength(JSONstringify(data))))

NoConn ==
  [mode |-> "none", method |-> "none", data |-> Undefined, headers |-> Undefined,
   given |-> Undefined, wire |-> <<>>, ends |-> 0, emittedData |-> 0, emittedEnd |-> FALSE,
   phase |-> "none", status |-> 0, rbody |-> <<>>, calls |-> <<>>,
   uncaught |-> FALSE]

NoHandle ==
  [state |-> "none", client |-> NoClient, passed |-> Undefined,
   record |-> Undefined, json |-> FALSE, wires |-> <<>>, given |-> <<>>,
   sent |-> <<>>, ended |-> FALSE, terminal |-> FALSE]

WireIdle ==
  /\ conn = NoConn
  /\ handle = NoHandle

\* connection._requestRaw / _requestJson(method, selector, options, data,
\* headers, callback), up to its return
ConnRequest(mode, method, auth, data, headers) ==
  /\ conn.phase = "none"
  /\ conn' = [NoConn EXCEPT
               !.mode = mode, !.method = method, !.data = data, !.given = headers,
               !.headers = requestRawHeaders(auth, data, headers),
               !.wire = IF Truthy(data) /\ ~IsEmitter(data)
                        THEN <<JSONstringify(data)>> ELSE <<>>,
               !.ends = IF Truthy(data) /\ IsEmitter(data) THEN 0 ELSE 1,
               !.phase = "sent"]
  /\ UNCHANGED <<handle, decoderVars, errorVars, dispatchVars, requestVars,
                 lifecycleVars, flightVars>>

\* the body emits 'data': data.on('data', ...) writes the chunk
BodyData ==
  /\ conn.phase # "none"
  /\ IsEmitter(conn.data)
  /\ ~conn.emittedEnd
  /\ conn.emittedData < Len(Val(conn.data))
  /\ conn' = [conn EXCEPT
               !.emittedData = @ + 1,
               !.wire = Append(@, Val(conn.data)[conn.emittedData + 1])]
  /\ UNCHANGED <<handle, decoderVars, errorVars, dispatchVars, requestVars,
                 lifecycleVars, flightVars>>

\* the body emits 'end': data.on('end', ...) ends the request
BodyEnd ==
  /\ conn.phase # "none"
  /\ IsEmitter(conn.data)
  /\ ~conn.emittedEnd
  /\ conn.emittedData = Len(Val(conn.data))
  /\ conn' = [conn EXCEPT !.emittedEnd = TRUE, !.ends = @ + 1]
  /\ UNCHANGED <<handle, decoderVars, errorVars, dispatchVars, requestVars,
                 lifecycleVars, flightVars>>

\* a call of the caller's callback: whether its error argument was an
\* error and whether a second argument was given
CallbackCall(error, result) == [error |-> error, result |-> result]

\* what the 'end' handler of _requestJson does with the joined body and the
\* error it holds: the call it makes, or none when reading json.error or
\* calling json.error.replace throws
JsonEndCalls(error, text) ==
  IF ~JSONparse(Str(text)).ok THEN <<CallbackCall(TRUE, TRUE)>>
  ELSE IF Tag(JSONparse(Str(text)).v) = "null" THEN <<>>
  ELSE IF ~Truthy(GetProp(JSONparse(Str(text)).v, KeyError))
  THEN <<CallbackCall(error, TRUE)>>
  ELSE IF Tag(GetProp(JSONparse(Str(text)).v, KeyError)) # "str" THEN <<>>
  ELSE <<CallbackCall(TRUE, TRUE)>>

ConnStatuses == {200, 404}
ConnFragments ==
  {<<"1">>, TextNull, Broken, ErrorReasonDoc(NotFoundText, MissingText),
   <<"{">> \o Quoted(KeyError) \o <<":">> \o TextTrue \o <<"}">>}

\* the 'response' event: _requestRaw's response function calls its callback,
\* which is the caller's in raw mode and _requestJson's function, which
\* installs the 'data' and 'end' listeners, in JSON mode
ConnResponse(status) ==
  /\ conn.phase = "sent"
  /\ conn' = [conn EXCEPT
               !.phase = "open", !.status = status,
               !.calls = IF conn.mode = "raw"
                         THEN Append(@, CallbackCall(status >= 400, TRUE)) ELSE @]
  /\ UNCHANGED <<handle, decoderVars, errorVars, dispatchVars, requestVars,
                 lifecycleVars, flightVars>>

\* a fragment of the response body arrives
ConnResponseData(chunk) ==
  /\ conn.phase = "open"
  /\ Len(conn.rbody) < MaxData
  /\ conn' = [conn EXCEPT !.rbody = Append(@, chunk)]
  /\ UNCHANGED <<handle, decoderVars, errorVars, dispatchVars, requestVars,
                 lifecycleVars, flightVars>>

\* the response ends
ConnResponseEnd ==
  /\ conn.phase = "open"
  /\ conn' = [conn EXCEPT
               !.phase = "ended",
               !.calls = IF conn.mode = "json"
                         THEN @ \o JsonEndCalls(conn.status >= 400, Join(conn.rbody))
                         ELSE @,
               !.uncaught = /\ conn.mode = "json"
                            /\ JsonEndCalls(conn.status >= 400, Join(conn.rbody)) = <<>>]
  /\ UNCHANGED <<handle, decoderVars, errorVars, dispatchVars, requestVars,
                 lifecycleVars, flightVars>>

\* the request emits 'error' (the connection is refused, or is reset before
\* the response has ended): request.on('error', ...) calls the callback
ConnError ==
  /\ conn.phase \in {"sent", "open"}
  /\ conn' = [conn EXCEPT !.phase = "failed",
                          !.calls = Append(@, CallbackCall(TRUE, FALSE))]
  /\ UNCHANGED <<handle, decoderVars, errorVars, dispatchVars, requestVars,
                 lifecycleVars, flightVars>>

(* the calls that are made *)
ConnBodies ==
  {Null, Num(0), Str(<<>>), Str(<<"d", "eacute">>), Num(7),
   Obj(<< <<<<"k">>, Str(<<"v">>)>> >>),
   Emitter(<<>>), Emitter(<<Str(<<"a">>), Str(<<"b">>)>>)}
ConnHeaders ==
  {EmptyMap, Obj(<< <<KeyContentType, Str(<<"text/plain">>)>> >>),
   Obj(<< <<KeyContentLength, Num(5)>> >>)}
ConnAuths == {Null, Str(<<"Basic", " ", "x">>)}

----------------------------------------------------------------------------
(* The request handle a CouchClient verb returns: the options record the   *)
(* caller passed, what each request put on the wire, and the caller's      *)
(* writes to the handle                                                    *)

\* isJSONObject(data)
isJSONObject(data) ==
  TypeOf(data) = "object" /\ Tag(data) \notin {"array", "buffer"}

\* what the patched write and end pass on to the request's own write and end
patchedData(data) ==
  IF isJSONObject(data) THEN Str(JSONstringify(data)) ELSE data

MaxWrites == 2

\* the verb as it reaches _doRequest
verbDoRequest(verb, options, data, raw) ==
  IF verb \in {"post", "put"}
  THEN CouchBodyful(verb, options, Fn("cb"), data, raw)
  ELSE CouchBodyless(verb, options, Fn("cb"), raw)

\* the request the verb makes: _doRequest, then request() directly or through
\* requestJson, up to `return patchRequest(request)`
verbWire(c, doing) ==
  request(c, doing.calls[1].target, doing.calls[1].data, doing.calls[1].cb)

\* an options object is passed by reference: _doRequest and request()
\* assign to its members, so after the call the caller's record holds what
\* was handed to the transport; a path string is passed by value
recordAfter(options, wire) ==
  IF Tag(options) = "options" THEN wire.options ELSE options

\* client.get / put (options, callback [, data] [, raw]), up to its return
VerbCall(c, verb, options, data, raw) ==
  /\ handle.state = "none"
  /\ ~verbDoRequest(verb, options, data, raw).threw
  /\ ~verbWire(c, verbDoRequest(verb, options, data, raw)).threw
  /\ handle' =
       [NoHandle EXCEPT
          !.state = "open", !.client = c, !.passed = options,
          !.record = recordAfter(options,
                                 verbWire(c, verbDoRequest(verb, options, data, raw))),
          !.json = (raw # Bool(TRUE)),
          !.wires = <<[verb |-> verb, data |-> data,
                       options |-> verbWire(c, verbDoRequest(verb, options, data, raw)).options,
                       written |-> verbWire(c, verbDoRequest(verb, options, data, raw)).written]>>]
  /\ UNCHANGED <<conn, decoderVars, errorVars, dispatchVars, requestVars,
                 lifecycleVars, flightVars>>

\* the same verb called once more on the same client with the options
\* record the caller passed before
VerbAgain(data) ==
  /\ handle.state = "open"
  /\ Len(handle.wires) = 1
  /\ handle.given = <<>> /\ ~handle.ended
  /\ ~verbDoRequest(handle.wires[1].verb, handle.record, data, Bool(TRUE)).threw
  /\ ~verbWire(handle.client,
               verbDoRequest(handle.wires[1].verb, handle.record, data, Bool(TRUE))).threw
  /\ handle' =
       [handle EXCEPT
          !.record = recordAfter(handle.record,
                       verbWire(handle.client,
                                verbDoRequest(handle.wires[1].verb, handle.record,
                                              data, Bool(TRUE)))),
          !.wires = Append(@,
                      [verb |-> handle.wires[1].verb, data |-> data,
                       options |-> verbWire(handle.client,
                                     verbDoRequest(handle.wires[1].verb, handle.record,
                                                   data, Bool(TRUE))).options,
                       written |-> verbWire(handle.client,
                                     verbDoRequest(handle.wires[1].verb, handle.record,
                                                   data, Bool(TRUE))).written])]
  /\ UNCHANGED <<conn, decoderVars, errorVars, dispatchVars, requestVars,
                 lifecycleVars, flightVars>>

\* the caller writes to the handle: req.write(data)
HandleWrite(data) ==
  /\ handle.state = "open"
  /\ ~handle.ended
  /\ Len(handle.given) < MaxWrites
  /\ handle' = [handle EXCEPT !.given = Append(@, data),
                              !.sent = Append(@, patchedData(data))]
  /\ UNCHANGED <<conn, decoderVars, errorVars, dispatchVars, requestVars,
                 lifecycleVars, flightVars>>

\* the caller ends the handle: req.end(data)
HandleEnd(data) ==
  /\ handle.state = "open"
  /\ ~handle.ended
  /\ handle' = [handle EXCEPT !.given = Append(@, data),
                              !.sent = Append(@, patchedData(data)),
                              !.ended = TRUE]
  /\ UNCHANGED <<conn, decoderVars, errorVars, dispatchVars, requestVars,
                 lifecycleVars, flightVars>>

\* the server answers completely or closes the connection, and the JSON
\* decoder emits its terminal event; the transport sends nothing before the
\* first write or end of the request, and a request without a body is
\* complete only when it is ended
ServerAnswers ==
  /\ handle.state = "open"
  /\ ~handle.terminal
  /\ handle.json
  /\ \/ handle.ended
     \/ handle.wires[Len(handle.wires)].written # <<>>
  /\ handle' = [handle EXCEPT !.terminal = TRUE]
  /\ UNCHANGED <<conn, decoderVars, errorVars, dispatchVars, requestVars,
                 lifecycleVars, flightVars>>

(* the calls that are made *)
HandleClients == {CouchClient(Str(UrlPlain)).client, CouchClient(Str(UrlFull)).client}
HandleOptions ==
  {Str(DbPath),
   Options([NoMembers EXCEPT !.path = Str(DbPath)]),
   Options([NoMembers EXCEPT !.path = Str(DbPath), !.headers = EmptyMap]),
   Options([NoMembers EXCEPT !.path = Str(DbPath), !.headers = EmptyMap,
                             !.query = Obj(<< <<<<"a">>, Str(<<"2">>)>> >>)])}
HandleBodies == {Undefined, Str(<<"a">>), Str(<<"d", "eacute">>)}
HandleValues ==
  {Undefined, Null, Num(7), Bool(TRUE), Str(<<"a">>), Arr(<<1, 2>>),
   Buf(<<195, 169>>), Obj(<< <<<<"k">>, Str(<<"v">>)>> >>)}

----------------------------------------------------------------------------
(* resource() given one array: the array is the caller's, not a copy *)

\* the highest index of a component that is not a string, 0 if there is none:
\* the loop `for (var i = args.length; i--;)` runs down from the last
\* component and throws there
FirstNonString(elems) ==
  IF \A k \in 1..Len(elems) : TypeOf(elems[k]) = "string" THEN 0
  ELSE CHOOSE k \in 1..Len(elems) :
         /\ TypeOf(elems[k]) # "string"
         /\ \A j \in (k + 1)..Len(elems) : TypeOf(elems[j]) = "string"

\* the components as the loop leaves them: args[i] = encodeURIComponent(args[i])
\* for every component after the one it throws at
EncodedInPlace(elems) ==
  [k \in 1..Len(elems) |->
     IF k > FirstNonString(elems) THEN Str(Escape(Val(elems[k]))) ELSE elems[k]]

\* the caller's array after this.resource(array): with `args = args[0]` the
\* loop and args.unshift('') work on the caller's array
resourceArgs(c, array) ==
  Arr(IF /\ FirstNonString(Val(array)) = 0
         /\ getPath(c, Undefined)[Len(getPath(c, Undefined))] # "/"
      THEN <<Str(<<>>)>> \o EncodedInPlace(Val(array))
      ELSE EncodedInPlace(Val(array)))

\* client.resource(array)
ResourceWith(array) ==
  /\ done.op = "none"
  /\ clients' = IF resource(clients[1], <<array>>).threw THEN clients
                ELSE Append(clients, resource(clients[1], <<array>>).client)
  /\ done' = [Did("resource", 1, <<array>>, resource(clients[1], <<array>>).threw)
                EXCEPT !.made = IF resource(clients[1], <<array>>).threw THEN 0
                                ELSE Len(clients) + 1,
                       !.array = resourceArgs(clients[1], array)]
  /\ UNCHANGED <<decoderVars, errorVars, dispatchVars, requestVars, flightVars,
                 wireVars>>

\* client.resource(array) once more, with the array the caller passed before
ResourceAgain ==
  /\ done.op = "resource"
  /\ clients' = IF resource(clients[1], <<done.array>>).threw THEN clients
                ELSE Append(clients, resource(clients[1], <<done.array>>).client)
  /\ done' = [Did("resourceAgain", 1, done.args,
                  resource(clients[1], <<done.array>>).threw)
                EXCEPT !.made = IF resource(clients[1], <<done.array>>).threw THEN 0
                                ELSE Len(clients) + 1,
                       !.array = resourceArgs(clients[1], done.array)]
  /\ UNCHANGED <<decoderVars, errorVars, dispatchVars, requestVars, flightVars,
                 wireVars>>

(* the calls that are made *)
MaxSegments == 2
SegmentValues ==
  {Str(<<"a">>), Str(<<"b", " ", "c">>), Str(<<"x", "/", "y">>),
   Str(<<"eacute">>), Num(1)}
SegmentArrays ==
  UNION {{Arr(elems) : elems \in [1..n -> SegmentValues]} : n \in 0..MaxSegments}
ResourceBases == {Str(UrlPlain), Str(UrlFull), Str(UrlQuery)}

----------------------------------------------------------------------------
(* Several JSON-mode requests of one CouchClient in flight: every call of  *)
(* requestJson's response function has its own `body` and `emitter`        *)

MaxInFlight == 2
MaxEvents == 6

\* one request: the response events delivered to it and what its own
\* emitter has emitted
NoDecoder ==
  [phase |-> "sent", status |-> 0, body |-> <<>>, fragments |-> <<>>,
   emitted |-> <<>>, ended |-> FALSE, closed |-> FALSE]

RECURSIVE EventsDelivered(_)
EventsDelivered(fl) ==
  IF fl = <<>> THEN 0
  ELSE (IF Head(fl).phase = "sent" THEN 0 ELSE 1) + Len(Head(fl).fragments)
         + (IF Head(fl).ended THEN 1 ELSE 0) + (IF Head(fl).closed THEN 1 ELSE 0)
         + EventsDelivered(Tail(fl))

\* handlers that all push to, and join, the buffer of the first request
bodyOwner_Shared(k) == 1

\* the request whose `body` the handlers of request k use: `var body = []`
\* is made anew in each call of the response function
bodyOwner(k) == k

\* client.requestJson(options, data, callback): one more request in flight
JsonRequest ==
  /\ Len(flights) < MaxInFlight
  /\ flights' = Append(flights, NoDecoder)
  /\ UNCHANGED <<held, wireVars, decoderVars, errorVars, dispatchVars,
                 requestVars, lifecycleVars>>

\* the response of request k arrives
JsonResponse(k, status) ==
  /\ flights[k].phase = "sent"
  /\ EventsDelivered(flights) < MaxEvents
  /\ flights' = [flights EXCEPT ![k].phase = "open", ![k].status = status]
  /\ UNCHANGED <<held, wireVars, decoderVars, errorVars, dispatchVars,
                 requestVars, lifecycleVars>>

\* a fragment of the response of request k arrives
JsonData(k, chunk) ==
  /\ flights[k].phase = "open"
  /\ EventsDelivered(flights) < MaxEvents
  /\ flights' = [flights EXCEPT
                   ![bodyOwner(k)].body = IF chunk # <<>> THEN Append(@, chunk) ELSE @,
                   ![k].fragments = Append(@, chunk),
                   ![k].emitted = @ \o DataEvents(chunk)]
  /\ UNCHANGED <<held, wireVars, decoderVars, errorVars, dispatchVars,
                 requestVars, lifecycleVars>>

\* the response of request k ends
JsonEnd(k) ==
  /\ flights[k].phase = "open"
  /\ EventsDelivered(flights) < MaxEvents
  /\ flights' = [flights EXCEPT
                   ![k].phase = "over", ![k].ended = TRUE,
                   ![k].emitted =
                     @ \o EndEvents(flights[k].status,
                                    Join(flights[bodyOwner(k)].body))]
  /\ UNCHANGED <<held, wireVars, decoderVars, errorVars, dispatchVars,
                 requestVars, lifecycleVars>>

\* the connection of request k closes before its response has ended
JsonClose(k, err) ==
  /\ flights[k].phase = "open"
  /\ EventsDelivered(flights) < MaxEvents
  /\ flights' = [flights EXCEPT
                   ![k].phase = "over", ![k].closed = TRUE,
                   ![k].emitted = @ \o CloseEvents(err)]
  /\ UNCHANGED <<held, wireVars, decoderVars, errorVars, dispatchVars,
                 requestVars, lifecycleVars>>

(* the responses that arrive *)
JsonStatuses == {200, 404}
JsonFragments ==
  {<<"1">>, <<"{">>, <<"}">>, ErrorReasonDoc(NotFoundText, MissingText)}

----------------------------------------------------------------------------
(* Specifications *)

\* one JSON-mode request and the events of its response
Init ==
  /\ DecoderStart /\ ErrorIdle /\ DispatchIdle /\ RequestIdle
  /\ LifecycleIdle /\ FlightIdle /\ WireIdle

Next ==
  \/ \E status \in Statuses : Response(status)
  \/ \E chunk \in Fragments : ResponseData(chunk)
  \/ ResponseEnd
  \/ \E err \in ClosePayloads : ResponseClose(err)

Spec == Init /\ [][Next]_vars

\* the error classifier called on its own
ErrorInit ==
  /\ errArgs \in [code : CodeInputs, body : BodyInputs]
  /\ errOut = [define |-> NotCalled, make |-> NotCalled]
  /\ DecoderIdle /\ DispatchIdle /\ RequestIdle
  /\ LifecycleIdle /\ FlightIdle /\ WireIdle

ErrorNext == CallDefineError \/ CallMakeError

ErrorSpec == ErrorInit /\ [][ErrorNext]_vars

\* one call of a verb method of either client
DispatchInit ==
  /\ DispatchIdle /\ DecoderIdle /\ ErrorIdle /\ RequestIdle
  /\ LifecycleIdle /\ FlightIdle /\ WireIdle

DispatchNext ==
  \/ \E verb \in {"copy", "delete", "get", "head"}, options \in CouchOptions,
        callback \in Callbacks, raw \in RawFlags :
       CouchClientBodyless(verb, options, callback, raw)
  \/ \E verb \in {"post", "put"}, options \in CouchOptions,
        callback \in Callbacks, data \in DataValues, raw \in RawFlags :
       CouchClientBodyful(verb, options, callback, data, raw)
  \/ \E path \in ConnPaths, verb \in {"copy", "del", "get", "head", "post", "put"},
        selector \in Selectors, lead \in ConnLeading, trail \in ConnTrailing :
       ConnectionVerb(path, verb, selector, lead \o trail)

DispatchSpec == DispatchInit /\ [][DispatchNext]_vars

\* a client is constructed and configured, then one request or query is made
RequestInit ==
  /\ client \in {CouchClient(u).client : u \in ClientUrls}
  /\ last = NoOutcome
  /\ DecoderIdle /\ ErrorIdle /\ DispatchIdle
  /\ LifecycleIdle /\ FlightIdle /\ WireIdle

RequestNext ==
  \/ \E u \in ClientUrls : SetUrl(u)
  \/ \E cred \in Credentials : SetCredentials(cred[1], cred[2])
  \/ \E q \in QueryInputs : GetQuery(q)
  \/ \E options \in RequestOptions, data \in BodyValues, callback \in Callbacks :
       Request(options, data, callback)

RequestSpec == RequestInit /\ [][RequestNext]_vars

\* clients are constructed, reconfigured and derived from one another
ClientInit ==
  /\ clients \in {<<CouchClient(u).client>> : u \in FirstUrls}
  /\ done = NoOp
  /\ DecoderIdle /\ ErrorIdle /\ DispatchIdle /\ RequestIdle /\ FlightIdle
  /\ WireIdle

ClientNext ==
  \/ \E i \in 1..Len(clients), u \in NextUrls : SetUrlOn(i, u)
  \/ \E i \in 1..Len(clients), cred \in CredentialCalls :
       SetCredentialsOn(i, cred[1], cred[2])
  \/ \E i \in 1..Len(clients), args \in ResourceCalls : ResourceOn(i, args)
  \/ \E i \in 1..Len(clients) : AssignHeaderOn(i, KeyAccept, AnyType)
  \/ \E i \in 1..Len(clients), sel \in {Undefined, Str(<<"x">>)} :
       GetPathOn(i, sel)
  \/ \E i \in 1..Len(clients), q \in {Undefined, Obj(<< <<<<"b">>, Num(2)>> >>)} :
       GetQueryOn(i, q)
  \/ \E i \in 1..Len(clients) : GetUrlOn(i)
  \/ \E i \in 1..Len(clients), options \in ClientRequests : RequestOn(i, options)

ClientSpec == ClientInit /\ [][ClientNext]_vars

\* clients are given connection strings made of every combination of parts
UrlNext ==
  \/ \E i \in 1..Len(clients), parts \in UrlParts : SetUrlOn(i, Str(UrlText(parts)))
  \/ \E i \in 1..Len(clients) : AssignHeaderOn(i, KeyAccept, AnyType)

UrlSpec == ClientInit /\ [][UrlNext]_vars

\* one client issues requests while its credentials are changed and the
\* requests are answered or fail
FlightInit ==
  /\ client \in {CouchClient(u).client : u \in {Str(UrlPlain), Str(UrlFull)}}
  /\ last = NoOutcome
  /\ held \in {Obj(<<>>), Obj(<< <<KeyAccept, AnyType>> >>)}
  /\ flights = <<>>
  /\ DecoderIdle /\ ErrorIdle /\ DispatchIdle /\ LifecycleIdle /\ WireIdle

FlightNext ==
  \/ \E cred \in Credentials : SetCredentials(cred[1], cred[2])
  \/ \E verb \in {"get", "delete"}, callback \in Callbacks, reuse \in BOOLEAN,
        raw \in {Undefined, Bool(TRUE)}, listens \in BOOLEAN :
       Dispatch(verb, callback, reuse, raw, listens)
  \/ \E k \in 1..Len(flights) : FlightResponse(k)
  \/ \E k \in 1..Len(flights) : ConnectionFails(k)

FlightSpec == FlightInit /\ [][FlightNext]_vars

\* one request of a Connection: its body is written and its response,
\* or an error, arrives
ConnInit ==
  /\ conn = NoConn
  /\ handle = NoHandle
  /\ DecoderIdle /\ ErrorIdle /\ DispatchIdle /\ RequestIdle
  /\ LifecycleIdle /\ FlightIdle

ConnNext ==
  \/ \E mode \in {"raw", "json"}, method \in {"GET", "PUT"}, auth \in ConnAuths,
        data \in ConnBodies, headers \in ConnHeaders :
       ConnRequest(mode, method, auth, data, headers)
  \/ BodyData
  \/ BodyEnd
  \/ \E status \in ConnStatuses : ConnResponse(status)
  \/ \E chunk \in ConnFragments : ConnResponseData(chunk)
  \/ ConnResponseEnd
  \/ ConnError

ConnSpec == ConnInit /\ [][ConnNext]_vars

\* one verb call on a CouchClient, a second with the same options record,
\* and the caller's use of the handle it got back
HandleInit ==
  /\ handle = NoHandle
  /\ conn = NoConn
  /\ DecoderIdle /\ ErrorIdle /\ DispatchIdle /\ RequestIdle
  /\ LifecycleIdle /\ FlightIdle

HandleNext ==
  \/ \E c \in HandleClients, verb \in {"get", "put"}, options \in HandleOptions,
        data \in HandleBodies, raw \in {Undefined, Bool(TRUE)} :
       VerbCall(c, verb, options, data, raw)
  \/ \E data \in HandleBodies : VerbAgain(data)
  \/ \E data \in HandleValues : HandleWrite(data)
  \/ \E data \in HandleValues : HandleEnd(data)
  \/ ServerAnswers

HandleSpec == HandleInit /\ [][HandleNext]_vars

\* resource() called twice on one client with the same array
ResourceInit ==
  /\ clients \in {<<CouchClient(u).client>> : u \in ResourceBases}
  /\ done = NoOp
  /\ DecoderIdle /\ ErrorIdle /\ DispatchIdle /\ RequestIdle /\ FlightIdle
  /\ WireIdle

ResourceNext ==
  \/ \E array \in SegmentArrays : ResourceWith(array)
  \/ ResourceAgain

ResourceSpec == ResourceInit /\ [][ResourceNext]_vars

\* several JSON-mode requests in flight, their response events interleaved
ConcurrentInit ==
  /\ flights = <<>>
  /\ held = Undefined
  /\ DecoderIdle /\ ErrorIdle /\ DispatchIdle /\ RequestIdle
  /\ LifecycleIdle /\ WireIdle

ConcurrentNext ==
  \/ JsonRequest
  \/ \E k \in 1..Len(flights), status \in JsonStatuses : JsonResponse(k, status)
  \/ \E k \in 1..Len(flights), chunk \in JsonFragments : JsonData(k, chunk)
  \/ \E k \in 1..Len(flights) : JsonEnd(k)
  \/ \E k \in 1..Len(flights), err \in ClosePayloads : JsonClose(k, err)

ConcurrentSpec == ConcurrentInit /\ [][ConcurrentNext]_vars

----------------------------------------------------------------------------
(* The event sequence of a JSON-mode request (C1 - C4) *)

IsTerminal(e) == e.ev \in {"end", "close"}
Terminals == {i \in 1..Len(emitted) : IsTerminal(emitted[i])}
NumEv(ev) == Cardinality({i \in 1..Len(emitted) : emitted[i].ev = ev})
\* the events emitted by the handler of the i-th delivered response event
OutOf(i) ==
  SubSeq(emitted, delivered[i].at + 1,
         IF i < Len(delivered) THEN delivered[i + 1].at ELSE Len(emitted))
\* the events emitted from the handler of the i-th response event on
From(i) == SubSeq(emitted, delivered[i].at + 1, Len(emitted))
Ends == {i \in 1..Len(delivered) : delivered[i].ev = "end"}
FullBody == Str(Join(body))
ForwardedCloses == {CloseEvents(err) : err \in ClosePayloads}

C2_ValidBodyEmitsDataThenEnd ==
  \A i \in Ends :
    (statusCode < 400 /\ JSONparse(FullBody).ok) =>
      /\ OutOf(i) = <<Event("data", JSONparse(FullBody).v), Event("end", Undefined)>>
      /\ NumEv("data") = 1 /\ NumEv("end") = 1 /\ NumEv("body") = 0
      /\ NumEv("close") = Count("close")

\* C2 witness: a valid body that arrived as two fragments, neither of them
\* valid JSON alone, was ended with status 200 and 'end' was emitted.
C2_Witness ==
  /\ ended /\ statusCode = 200 /\ Len(body) = 2
  /\ JSONparse(FullBody).ok /\ Tag(JSONparse(FullBody).v) = "obj"
  /\ ~JSONparse(Str(body[1])).ok /\ ~JSONparse(Str(body[2])).ok
  /\ NumEv("end") = 1

\* C3 as stated: when the response ends with status < 400 and the body is no
\* valid JSON, the handle emits 'body' with the raw text, then 'close' with
\* the decode error, no 'data', no 'end', and nothing afterwards.
C3_InvalidBodyThenNothingMore ==
  \A i \in Ends :
    (statusCode < 400 /\ ~JSONparse(FullBody).ok) =>
      /\ From(i) = <<Event("body", FullBody), Event("close", SyntaxError)>>
      /\ NumEv("data") = 0 /\ NumEv("end") = 0

\* C3 as amended: ... and nothing afterwards except the 'close' forwarded
\* when the response itself delivers close after its end.
C3_InvalidBodyEmitsBodyThenClose ==
  \A i \in Ends :
    (statusCode < 400 /\ ~JSONparse(FullBody).ok) =>
      /\ OutOf(i) = <<Event("body", FullBody), Event("close", SyntaxError)>>
      /\ NumEv("data") = 0 /\ NumEv("end") = 0 /\ NumEv("body") = 1
      /\ \/ From(i) = OutOf(i)
         \/ /\ \E j \in (i + 1)..Len(delivered) : delivered[j].ev = "close"
            /\ \E fwd \in ForwardedCloses : From(i) = OutOf(i) \o fwd

\* C3 witness: the body "{ broken }" was ended with status 200.
C3_Witness ==
  /\ ended /\ statusCode = 200 /\ body = <<Broken>>
  /\ NumEv("body") = 1

----------------------------------------------------------------------------
(* The error classifier (C5, C6) *)

DocumentedNames ==
  {<<400, "BadRequest">>, <<401, "Unauthorized">>, <<403, "Forbidden">>,
   <<404, "NotFound">>, <<406, "NotAcceptable">>, <<409, "Conflict">>,
   <<412, "PreconditionFailed">>, <<415, "BadContentType">>,
   <<416, "RangeNotSatisfiable">>, <<417, "ExpectationFailed">>,
   <<500, "ServerError">>}

\* C5: defineError keeps a numeric code and names it by the documented
\* table, HttpError for every number outside the table; a code that is no
\* number gives HttpError with NaN as code.
C5_DefineErrorFollowsTable ==
  errOut.define.called =>
    LET code == errArgs.code
        error == errOut.define.error
    IN IF Tag(code) = "num"
       THEN /\ error.code = code
            /\ \A row \in DocumentedNames : Val(code) = row[1] => error.name = row[2]
            /\ (\A row \in DocumentedNames : Val(code) # row[1]) => error.name = "HttpError"
       ELSE error.code = NaN /\ error.name = "HttpError"

\* C5 witness: defineError was called with 417 and named it ExpectationFailed.
C5_Witness ==
  /\ errOut.define.called
  /\ errArgs.code = Num(417)
  /\ errOut.define.error.name = "ExpectationFailed"

RECURSIVE ReplaceAll(_, _, _)
ReplaceAll(s, c, d) ==
  IF s = <<>> THEN <<>>
  ELSE <<IF Head(s) = c THEN d ELSE Head(s)>> \o ReplaceAll(Tail(s), c, d)

\* C6: makeError's message is, for a body that parses as JSON and has an
\* 'error' member, the error text with every underscore replaced by a
\* space, then ": ", then the reason text with every underscore replaced by
\* a space, or "no reason" when there is no reason; for every other body it
\* is the raw body.
C6_MessageReplacesEveryUnderscore ==
  errOut.make.called =>
    LET parsed == JSONparse(errArgs.body)
        json == parsed.v
        hasError == parsed.ok /\ GetProp(json, KeyError) # Undefined
        reason == GetProp(json, KeyReason)
    IN /\ ~errOut.make.threw
       /\ errOut.make.error.message =
            IF hasError
            THEN Str(ReplaceAll(Val(GetProp(json, KeyError)), "_", " ") \o <<":", " ">> \o
                     (IF reason # Undefined THEN ReplaceAll(Val(reason), "_", " ")
                      ELSE NoReason))
            ELSE errArgs.body

----------------------------------------------------------------------------
(* Claims C7, C8: dispatch of the verb methods (DispatchSpec) *)

\* the raw flag the caller passed: the trailing argument of the call
GivenRaw ==
  IF call.args = <<>> THEN Undefined
  ELSE IF call.variant = "Connection" /\ TypeOf(call.args[Len(call.args)]) # "boolean"
  THEN Undefined
  ELSE call.args[Len(call.args)]

RawTransports == {"request", "_requestRaw"}

\* C7: a HEAD call of either client whose raw flag is false or absent is
\* handed to the raw transport only, never to the JSON transport.
C7_HeadIsAlwaysRaw ==
  (call.verb = "head" /\ GivenRaw \in {Undefined, Bool(FALSE)} /\ ~invoked.threw)
    => /\ Len(invoked.calls) = 1
       /\ invoked.calls[1].transport \in RawTransports

\* the raw flag a CouchClient verb acts on: for post and put a boolean in the
\* body position, otherwise the trailing argument
EffectiveRaw ==
  IF call.verb \in {"post", "put"} /\ TypeOf(call.args[2]) = "boolean"
  THEN call.args[2] ELSE call.args[Len(call.args)]

PassedBody ==
  IF call.verb \in {"post", "put"} /\ TypeOf(call.args[2]) # "boolean"
  THEN call.args[2] ELSE Null

PassedOptions ==
  LET members == IF TypeOf(call.target) = "string"
                 THEN [NoMembers EXCEPT !.path = call.target]
                 ELSE Val(call.target)
  IN Options([members EXCEPT !.method = Method(VerbMethod(call.verb))])

\* C8: every CouchClient verb call invokes exactly one transport, the raw one
\* iff the raw flag is the boolean true and the JSON one otherwise; the
\* transport gets the verb as method, a path string wrapped as {path}, and the
\* body and callback as given; for post and put a boolean in the body position
\* is the raw flag and no body is passed on.
C8_CouchClientVerbDispatch ==
  call.variant = "CouchClient" =>
    /\ ~invoked.threw
    /\ Len(invoked.calls) = 1
    /\ invoked.calls[1].transport =
         (IF EffectiveRaw = Bool(TRUE) THEN "request" ELSE "requestJson")
    /\ invoked.calls[1].method = VerbMethod(call.verb)
    /\ invoked.calls[1].target = PassedOptions
    /\ invoked.calls[1].data = PassedBody
    /\ invoked.calls[1].cb = call.args[1]

C8_Witness ==
  /\ call.variant = "CouchClient"
  /\ call.verb = "post"
  /\ TypeOf(call.target) = "string"
  /\ call.args = <<Fn("cb"), Bool(TRUE), Bool(FALSE)>>
  /\ Len(invoked.calls) = 1
  /\ invoked.calls[1].transport = "request"
  /\ invoked.calls[1].data = Null

----------------------------------------------------------------------------
(* Claims C9, C10: what a request puts on the wire (RequestSpec) *)

Requested == last.op = "request" /\ ~last.threw
Queried == last.op = "getQuery" /\ ~last.threw

\* the options object the caller passed, and its headers and query
GivenOptions ==
  IF last.op = "request" /\ Tag(last.args[1]) = "options" THEN Val(last.args[1])
  ELSE IF last.op = "request" /\ Tag(last.args[1]) = "str"
  THEN [NoMembers EXCEPT !.path = last.args[1]]
  ELSE NoMembers
GivenHeaders == Or(GivenOptions.headers, Obj(<<>>))
GivenQuery == IF last.op = "getQuery" THEN last.args[1] ELSE GivenOptions.query
\* the headers handed to the http module, and the merged query
SentHeaders == Val(last.options).headers
MergedQuery == IF last.op = "getQuery" THEN last.query ELSE Val(last.options).query

\* given and defaults merged into result, every key of given keeping its value
CallerKeysKept(given, defaults, result) ==
  /\ \A k \in Keys(given) : GetProp(result, k) = GetProp(given, k)
  /\ \A k \in Keys(defaults) \ Keys(given) : GetProp(result, k) = GetProp(defaults, k)

\* C9 as stated: every key the caller supplied keeps the caller's value, for
\* the headers of request() and the query of getQuery().
C9_EveryCallerKeyWins ==
  /\ Requested => CallerKeysKept(GivenHeaders, last.client.options.headers, SentHeaders)
  /\ ((Requested \/ Queried) /\ Tag(GivenQuery) = "obj")
       => CallerKeysKept(GivenQuery, last.client.options.query, MergedQuery)

\* the keys given defines: those whose value is not undefined
Defined(given) == {k \in Keys(given) : GetProp(given, k) # Undefined}

\* given and defaults merged into result: a key given defines keeps its value,
\* the defaults supply every other key they have, and nothing else is added
\* beyond the keys in extra
DefinedKeysKept(given, defaults, result, extra) ==
  /\ \A k \in Defined(given) : GetProp(result, k) = GetProp(given, k)
  /\ \A k \in Keys(defaults) \ Defined(given) : GetProp(result, k) = GetProp(defaults, k)
  /\ Keys(result) \subseteq Keys(given) \cup Keys(defaults) \cup extra

\* C9: when per-call headers (request) or query parameters (getQuery, and the
\* query of request) are merged with the client's defaults, every key the
\* caller supplied with a value other than undefined keeps the caller's value,
\* the defaults only fill the other keys, the credential header included; the
\* rendered query is the stringified merge, prefixed with '?' only when it is
\* not empty, and request appends it to the path.
C9_DefinedCallerKeysWin ==
  /\ Requested =>
       /\ DefinedKeysKept(GivenHeaders, last.client.options.headers, SentHeaders,
                          {KeyContentType, KeyContentLength})
       /\ \E text \in {QsStringify(IF Tag(GivenQuery) = "obj" THEN MergedQuery
                                   ELSE last.client.options.query)} :
            Val(Val(last.options).path) =
              getPath(last.client, GivenOptions.path)
                \o (IF text = <<>> THEN <<>> ELSE <<"?">> \o text)
  /\ ((Requested \/ Queried) /\ Tag(GivenQuery) = "obj") =>
       DefinedKeysKept(GivenQuery, last.client.options.query, MergedQuery, {})
  /\ Queried =>
       /\ Tag(GivenQuery) = "undefined" => MergedQuery = last.client.options.query
       /\ last.text = (IF QsStringify(MergedQuery) = <<>> THEN <<>>
                       ELSE <<"?">> \o QsStringify(MergedQuery))

C9_Witness ==
  /\ Requested
  /\ GetProp(last.client.options.headers, KeyAuthentication)
       = Str(<<"Basic", " ", "u", ":", "p">>)
  /\ last.client.options.query = Obj(<< <<<<"a">>, Str(<<"1">>)>> >>)
  /\ GivenHeaders = Obj(<< <<KeyAuthentication, Str(<<"m", "i", "n", "e">>)>> >>)
  /\ GivenQuery = Obj(<< <<<<"a">>, Str(<<"2">>)>> >>)
  /\ GetProp(SentHeaders, KeyAuthentication) = Str(<<"m", "i", "n", "e">>)
  /\ Val(last.options).path = Str(<<"/", "d", "b", "/", "d", "b", "?", "a", "=", "2">>)

\* the body as it is written: text, arrays and buffers as they are, any other
\* value as its JSON text
BodyWritten(data) ==
  IF Tag(data) \in {"str", "array", "buffer"} THEN data ELSE Str(JSONstringify(data))
\* the number of bytes a written body puts on the wire
BytesOnWire(written) ==
  IF Tag(written) = "str" THEN Len(Utf8(Val(written))) ELSE Len(Val(written))

----------------------------------------------------------------------------
(* Claims about the credentials of a CouchClient                            *)

\* the character codes of the characters credentials are made of
CharCode(c) ==
  CASE c = "/" -> 47 [] c = ":" -> 58 [] c = "a" -> 97 [] c = "b" -> 98
    [] c = "p" -> 112 [] c = "q" -> 113 [] c = "s" -> 115 [] c = "u" -> 117

Base64Alphabet ==
  <<"A", "B", "C", "D", "E", "F", "G", "H", "I", "J", "K", "L", "M", "N", "O",
    "P", "Q", "R", "S", "T", "U", "V", "W", "X", "Y", "Z", "a", "b", "c", "d",
    "e", "f", "g", "h", "i", "j", "k", "l", "m", "n", "o", "p", "q", "r", "s",
    "t", "u", "v", "w", "x", "y", "z", "0", "1", "2", "3", "4", "5", "6", "7",
    "8", "9", "+", "/">>

\* the base64 encoding of a sequence of bytes
RECURSIVE Base64Bytes(_)
Base64Bytes(b) ==
  IF Len(b) = 0 THEN <<>>
  ELSE IF Len(b) = 1
  THEN <<Base64Alphabet[(b[1] \div 4) + 1],
         Base64Alphabet[((b[1] % 4) * 16) + 1], "=", "=">>
  ELSE IF Len(b) = 2
  THEN <<Base64Alphabet[(b[1] \div 4) + 1],
         Base64Alphabet[((b[1] % 4) * 16) + (b[2] \div 16) + 1],
         Base64Alphabet[((b[2] % 16) * 4) + 1], "=">>
  ELSE <<Base64Alphabet[(b[1] \div 4) + 1],
         Base64Alphabet[((b[1] % 4) * 16) + (b[2] \div 16) + 1],
         Base64Alphabet[((b[2] % 16) * 4) + (b[3] \div 64) + 1],
         Base64Alphabet[(b[3] % 64) + 1]>>
       \o Base64Bytes(SubSeq(b, 4, Len(b)))

\* the base64 encoding of a text
Base64(s) == Base64Bytes([i \in 1..Len(s) |-> CharCode(s[i])])

\* the last call was setCredentials, it returned, and it stored credentials
CredentialsSet ==
  /\ done.op = "setCredentials"
  /\ ~done.threw
  /\ Truthy(done.args[1])

\* 'user:pass' as the last setCredentials call was given it
GivenUserPass ==
  IF Truthy(done.args[2])
  THEN Val(done.args[1]) \o <<":">> \o Val(done.args[2])
  ELSE Val(done.args[1])

\* C11: after a successful setCredentials(user, pass) the client's stored
\* credential header is named Authorization, its value is 'Basic ' followed
\* by the base64 encoding of 'user:pass', and the stored auth prefix is
\* 'user:pass@'
C11_AuthorizationBase64 ==
  CredentialsSet =>
    /\ GetProp(clients[done.on].options.headers, KeyAuthorization)
         = Str(<<"Basic", " ">> \o Base64(GivenUserPass))
    /\ clients[done.on].auth_url = Str(GivenUserPass \o <<"@">>)

\* the client's default headers contain the credential header
HasCredentialHeader(c) == HasKey(c.options.headers, KeyAuthentication)

\* C12: in every reachable state, also after a call that threw, a client's
\* default headers contain the credential header if and only if its stored
\* auth prefix is non-empty
C12_HeaderIffAuthPrefix ==
  \A i \in 1..Len(clients) :
    HasCredentialHeader(clients[i]) <=> Val(clients[i].auth_url) # <<>>

\* the last call was setCredentials
CalledSetCredentials == done.op = "setCredentials"
GivenUser == done.args[1]
GivenPass == done.args[2]
HasColon(text) == \E k \in 1..Len(text) : text[k] = ":"

\* the call stored the credentials `auth` and changed nothing else
StoredCredentials(auth) ==
  /\ ~done.threw
  /\ clients[done.on].auth_url = Str(auth \o <<"@">>)
  /\ HasCredentialHeader(clients[done.on])
  /\ clients[done.on] =
       [done.before EXCEPT
          !.auth_url = clients[done.on].auth_url,
          !.options.headers =
             SetProp(@, KeyAuthentication,
                     GetProp(clients[done.on].options.headers, KeyAuthentication))]

\* the call cleared the credentials and changed nothing else
ClearedCredentials ==
  /\ ~done.threw
  /\ clients[done.on].auth_url = Str(<<>>)
  /\ ~HasCredentialHeader(clients[done.on])
  /\ clients[done.on] =
       [done.before EXCEPT
          !.auth_url = Str(<<>>),
          !.options.headers = DeleteProp(@, KeyAuthentication)]

\* the call threw and left the client as it was
RejectedCredentials ==
  /\ done.threw
  /\ clients[done.on] = done.before

WithoutCredentials(c) ==
  ~HasCredentialHeader(c) /\ c.auth_url = Str(<<>>)

\* setCredentials was just called on a client that held no credentials, and
\* this step calls setCredentials() on the same client
ClearAfterSet ==
  /\ CalledSetCredentials
  /\ WithoutCredentials(done.before)
  /\ done'.n = done.n + 1
  /\ done'.op = "setCredentials" /\ done'.on = done.on
  /\ done'.args = <<Undefined, Undefined>>

\* C14: on a client without credentials, setCredentials(user, pass) followed
\* by setCredentials() leaves the client equal in every field to what it was
\* before the first call
C14_CredentialRoundTrip ==
  [][ClearAfterSet => clients'[done.on] = done.before]_vars

\* credentials were stored on a client that had none and a default header,
\* and the call that followed cleared them
C14_Witness ==
  /\ CalledSetCredentials
  /\ done.args = <<Undefined, Undefined>>
  /\ done.n = 3
  /\ done.before.auth_url = Str(<<"u", ":", "s", "@">>)
  /\ HasCredentialHeader(done.before)
  /\ HasKey(done.before.options.headers, KeyAccept)
  /\ WithoutCredentials(clients[done.on])
  /\ HasKey(clients[done.on].options.headers, KeyAccept)

----------------------------------------------------------------------------
(* Claims about connection strings and derived clients                      *)

\* the last call was setUrl with the connection string made of `parts`
SetUrlFrom(parts) ==
  /\ done.op = "setUrl"
  /\ done.args = <<Str(UrlText(parts))>>

\* the options a connection string made of `parts` stands for, with the
\* defaults for its absent parts
OptionsOf(parts) ==
  [host |-> IF parts.host # <<>> THEN Str(parts.host) ELSE Str(<<"localhost">>),
   port |-> IF parts.port # 0 THEN Num(parts.port)
            ELSE IF parts.host # <<>> THEN Num(80) ELSE Num(5984),
   method |-> Method("GET"),
   path |-> IF parts.path # <<>> THEN Str(parts.path) ELSE Str(<<"/">>),
   query |-> parts.query,
   headers |-> IF parts.auth # <<>>
               THEN Obj(<< <<KeyAuthentication, Str(<<"Basic", " ">> \o parts.auth)>> >>)
               ELSE Obj(<<>>)]

\* C15: setUrl (and so construction) replaces all previous options and takes
\* protocol, host, port, path and query from the string, with protocol http,
\* host localhost, port 5984 when there is no host segment and 80 when a
\* host comes without a port, path '/' and an empty query for absent parts
C15_SetUrlDefaults ==
  \A parts \in UrlParts :
    SetUrlFrom(parts) =>
      /\ ~done.threw
      /\ clients[done.on].protocol =
           Str((IF parts.protocol # <<>> THEN parts.protocol ELSE <<"http">>)
               \o <<":">>)
      /\ clients[done.on].options = OptionsOf(parts)

\* a client with credentials, a query and an assigned default header was
\* given the string 'https:' and holds nothing but the defaults
C15_Witness ==
  /\ done.op = "setUrl"
  /\ done.args = <<Str(<<"https", ":">>)>>
  /\ HasKey(done.before.options.headers, KeyAccept)
  /\ HasCredentialHeader(done.before)
  /\ Val(done.before.options.query) # <<>>
  /\ clients[done.on].options =
       [host |-> Str(<<"localhost">>), port |-> Num(5984), method |-> Method("GET"),
        path |-> Str(<<"/">>), query |-> Obj(<<>>), headers |-> Obj(<<>>)]

\* the last call was resource(...) and it returned a client
Derived == done.op = "resource" /\ ~done.threw
Segments == Components(done.args)

\* the segments, each percent-encoded as a whole, joined with '/'
JoinedSegments ==
  JoinWith([k \in 1..Len(Segments) |-> Escape(Val(Segments[k]))], <<"/">>)

\* the current path followed by the segments, with one '/' between them
PathWithSegments(path) ==
  IF Segments = <<>> THEN path
  ELSE IF path[Len(path)] = "/" THEN path \o JoinedSegments
  ELSE path \o <<"/">> \o JoinedSegments

\* C16: resource(segments), with the segments as separate arguments or as
\* one sequence, returns a client whose path is the current path followed
\* by the segments, each percent-encoded as a whole and joined with '/',
\* with exactly one '/' between the current path and the first segment
C16_ResourcePath ==
  Derived =>
    clients[done.made].options.path
      = Str(PathWithSegments(Val(done.before.options.path)))

\* C17: resource() with zero segments returns a new client equal to the
\* original in every field: protocol, host, port, path, query, default
\* headers (credential and other) and auth prefix
C17_ResourceCopies ==
  (Derived /\ Segments = <<>>) => clients[done.made] = done.before

\* the calls that may change the client they are made on: setUrl and
\* setCredentials, and the caller's own assignment to a default header
Mutators == {"setUrl", "setCredentials", "assignHeader"}

\* C18: a client changes only by setUrl or setCredentials called on that
\* same client: resource(), getPath, getQuery, getUrl and requests leave
\* every field of it unchanged, and a call on a derived client never
\* changes the original, nor the other way round
C18_OnlyMutatorsChangeClient ==
  [][\A i \in 1..Len(clients) :
       /\ i <= Len(clients')
       /\ clients'[i] # clients[i] => (done'.on = i /\ done'.op \in Mutators)]_vars

\* with an original and a derived client, a request with headers and a
\* query of its own was made on one that holds credentials
C18_Witness ==
  /\ done.op = "request"
  /\ Tag(done.args[1]) = "options"
  /\ ~done.threw
  /\ Len(clients) = 2
  /\ HasCredentialHeader(done.before)
  /\ clients[done.on] = done.before

----------------------------------------------------------------------------
(* Claims about requests in flight                                          *)

\* the credential header a request carries, undefined if it carries none
CredentialOf(headers) == GetProp(headers, KeyAuthentication)

\* C19: every request dispatched after setCredentials returned carries the
\* credential header the client holds at that moment, or none after
\* clearing, and every request dispatched earlier keeps the headers it was
\* built with, whatever setCredentials calls, dispatches and response
\* events come between
C19_RequestsCarryCurrentCredentials ==
  [][\A k \in 1..Len(flights') :
       IF k <= Len(flights)
       THEN flights'[k].sent = flights[k].sent
       ELSE CredentialOf(flights'[k].sent)
              = CredentialOf(client.options.headers)]_vars

\* C20: a connection failure of a request issued through a verb method is
\* reported to the callback or the handle of the caller, and is not thrown
C20_FailureReportedNotThrown ==
  \A k \in 1..Len(flights) :
    flights[k].state = "failed" =>
      /\ flights[k].cbCalls > 0 \/ flights[k].handleErrors > 0
      /\ ~flights[k].thrown

\* C21: a verb call given only a path, with no callback and no raw flag,
\* runs in JSON mode with a callback that does nothing: when the response
\* arrives no error is raised and the response is decoded
C21_NoCallbackIsHarmless ==
  \A k \in 1..Len(flights) :
    flights[k].cb = Undefined =>
      /\ flights[k].transport = "requestJson"
      /\ flights[k].state = "responded" =>
           (~flights[k].raised /\ flights[k].decoding)

----------------------------------------------------------------------------
(* Claims about the arguments of the Connection verbs                       *)

ConnectionCalled == call.variant = "Connection"

\* the arguments of the call without a trailing boolean raw flag
WithoutRaw ==
  IF call.args # <<>> /\ TypeOf(call.args[Len(call.args)]) = "boolean"
  THEN SubSeq(call.args, 1, Len(call.args) - 1) ELSE call.args

\* the optional arguments given before the callback and the raw flag
LeadingArgs ==
  IF WithoutRaw # <<>> /\ TypeOf(WithoutRaw[Len(WithoutRaw)]) = "function"
  THEN SubSeq(WithoutRaw, 1, Len(WithoutRaw) - 1) ELSE WithoutRaw

GivenCallback ==
  IF WithoutRaw # <<>> /\ TypeOf(WithoutRaw[Len(WithoutRaw)]) = "function"
  THEN WithoutRaw[Len(WithoutRaw)] ELSE Noop

TakesData == call.verb \in {"post", "put"}
Accepted == IF TakesData THEN 3 ELSE 2
NthOr(args, n, default) == IF n <= Len(args) THEN args[n] ELSE default

\* C22: a Connection verb call whose arguments after the path are a prefix
\* of options, data (post and put only), headers, then an optional callback
\* and an optional boolean raw flag, forwards exactly the given options,
\* data and headers to the transport with the given callback (or one that
\* does nothing), and throws only when more optional arguments were given
\* than the verb accepts
C22_ConnectionForwardsArguments ==
  ConnectionCalled =>
    IF Len(LeadingArgs) > Accepted THEN invoked.threw
    ELSE /\ ~invoked.threw
         /\ Len(invoked.calls) = 1
         /\ invoked.calls[1].options = NthOr(LeadingArgs, 1, Null)
         /\ invoked.calls[1].data =
              (IF TakesData THEN NthOr(LeadingArgs, 2, Null) ELSE Null)
         /\ invoked.calls[1].headers =
              NthOr(LeadingArgs, IF TakesData THEN 3 ELSE 2, EmptyMap)
         /\ invoked.calls[1].cb = GivenCallback

----------------------------------------------------------------------------
(* Claim C23: the request body of a Connection request (ConnSpec) *)

ConnRequested == conn.phase # "none"
StreamedBody == ConnRequested /\ Truthy(conn.data) /\ IsEmitter(conn.data)
SerialisedBody == ConnRequested /\ Truthy(conn.data) /\ ~IsEmitter(conn.data)
NoBody == ConnRequested /\ ~Truthy(conn.data)

\* the chunks the body has emitted so far, in the order it emitted them
ArrivedChunks == SubSeq(Val(conn.data), 1, conn.emittedData)

StreamedAsClaimed ==
  /\ GetProp(conn.headers, KeyTransferEncoding) = Chunked
  /\ conn.wire = ArrivedChunks
  /\ conn.ends = IF conn.emittedEnd THEN 1 ELSE 0

SerialisedAsClaimed ==
  /\ conn.wire = <<JSONstringify(conn.data)>>
  /\ GetProp(conn.headers, KeyContentLength)
       = Num(ByteLength(JSONstringify(conn.data)))
  /\ conn.ends = 1

\* C23: in _requestRaw a body (a truthy data argument) that exposes data/end
\* events is sent with Transfer-Encoding: chunked and with no Content-Length
\* other than one the caller put in the headers, its chunks are written in
\* arrival order and the request is ended once, when the body ends; any
\* other truthy body is written once as its JSON text, with Content-Length
\* its byte length, and the request is ended at once; a falsy data argument
\* (null, 0, '') is no body: nothing is written, no Content-Length is set
\* and the request is ended at once
C23_BodyStreamedOrSerialised ==
  /\ StreamedBody =>
       /\ StreamedAsClaimed
       /\ GetProp(conn.headers, KeyContentLength)
            = GetProp(conn.given, KeyContentLength)
  /\ SerialisedBody => SerialisedAsClaimed
  /\ NoBody =>
       /\ conn.wire = <<>>
       /\ conn.ends = 1
       /\ GetProp(conn.headers, KeyContentLength)
            = GetProp(conn.given, KeyContentLength)

\* a streamed body of two chunks has ended: both chunks are on the wire in
\* order, the request has been ended once and carries no Content-Length
C23_Witness ==
  /\ StreamedBody
  /\ conn.emittedEnd
  /\ conn.wire = <<Str(<<"a">>), Str(<<"b">>)>>
  /\ conn.ends = 1
  /\ GetProp(conn.headers, KeyContentLength) = Undefined

\* C23 as stated: every body that does not expose data/end events, whatever
\* its value, is written and given a Content-Length, and a streamed body
\* is sent with no Content-Length at all
C23_AnyValueAsStated ==
  /\ StreamedBody =>
       /\ StreamedAsClaimed
       /\ GetProp(conn.headers, KeyContentLength) = Undefined
  /\ (ConnRequested /\ ~IsEmitter(conn.data) /\ Tag(conn.data) # "null") =>
       SerialisedAsClaimed

----------------------------------------------------------------------------
(* Claim C27: how often a Connection request calls back (ConnSpec) *)

ConnOver == conn.phase \in {"ended", "failed"}

\* C27: the caller's callback of a Connection request is never called twice,
\* and once the response has ended or the request has failed it has been
\* called exactly once
C27_CallbackExactlyOnce ==
  /\ Len(conn.calls) <= 1
  /\ ConnOver => Len(conn.calls) = 1

----------------------------------------------------------------------------
(* Claims C24, C28, C30: the handle of a CouchClient request (HandleSpec) *)

\* the value the claim has write and end transmit
SerialisedUnlessRaw(data) ==
  IF Tag(data) \in {"array", "buffer", "str"} THEN data
  ELSE Str(JSONstringify(data))

\* C24: every value the caller writes to the handle or ends it with is
\* transmitted as its JSON text, unless it is an array, a buffer or a string,
\* which is transmitted unchanged (end() without a value transmits nothing)
C24_WriteEndSerialise ==
  \A i \in 1..Len(handle.given) :
    handle.given[i] # Undefined =>
      handle.sent[i] = SerialisedUnlessRaw(handle.given[i])

WireOf(n) == Val(handle.wires[n].options)

\* the Content-Length a request sends for its body: a body given as text
\* is sent as it is
LengthMatchesBody(n) ==
  handle.wires[n].written # <<>> =>
    GetProp(WireOf(n).headers, KeyContentLength)
      = Str(TextOfNat(ByteLength(Val(handle.wires[n].written[1]))))

\* C28: a verb call leaves the options record the caller passed as it was,
\* and two calls with the same record send the same method, path with
\* query and headers (but for Content-Length, which matches each body)
C28_OptionsRecordUntouched ==
  /\ handle.state = "open" => handle.record = handle.passed
  /\ Len(handle.wires) = 2 =>
       /\ WireOf(2).method = WireOf(1).method
       /\ WireOf(2).path = WireOf(1).path
       /\ DeleteProp(WireOf(2).headers, KeyContentLength)
            = DeleteProp(WireOf(1).headers, KeyContentLength)
       /\ LengthMatchesBody(1)
       /\ LengthMatchesBody(2)

\* C30: once a verb call has returned the request has been ended
C30_EndedOnReturn ==
  handle.state = "open" => handle.ended

----------------------------------------------------------------------------
(* Claim C29: resource() and the caller's array (ResourceSpec) *)

\* C29: resource(array) leaves the caller's array as it was, whether it
\* returns or throws, and a second call with the same array makes a client
\* with the same path as the first
C29_ResourceLeavesArray ==
  /\ done.op \in {"resource", "resourceAgain"} => done.array = done.args[1]
  /\ (done.op = "resourceAgain" /\ Len(clients) = 3) =>
       clients[3].options.path = clients[2].options.path

----------------------------------------------------------------------------
(* Claim C25: the fragments of a JSON-mode response (Spec) *)

IsData(i) == delivered[i].ev = "data"
\* the response was live when its i-th event arrived: neither its end nor a
\* close had been delivered
Live(i) == \A j \in 1..(i - 1) : IsData(j)
AfterEnd(i) == \E j \in 1..(i - 1) : delivered[j].ev = "end"

\* the fragments delivered before the i-th event, in arrival order
FragmentsBefore(i) ==
  [k \in 1..Len(SelectSeq(SubSeq(delivered, 1, i - 1), LAMBDA d : d.ev = "data")) |->
     SelectSeq(SubSeq(delivered, 1, i - 1), LAMBDA d : d.ev = "data")[k].chunk]

\* one 'chunk' event for each fragment that is valid JSON on its own
ChunkEvents(fragments) ==
  [k \in 1..Len(SelectSeq(fragments, LAMBDA f : JSONparse(Str(f)).ok)) |->
     Event("chunk",
           JSONparse(Str(SelectSeq(fragments, LAMBDA f : JSONparse(Str(f)).ok)[k])).v)]

----------------------------------------------------------------------------
(* Claim C26: requests in flight together (ConcurrentSpec) *)

\* what the handle of a request emits for its own response alone: a chunk
\* for each of its fragments that parses, then the events of its end over
\* its own fragments and status, or its own close
OwnEvents(f) ==
  ChunkEvents(f.fragments)
    \o (IF f.ended THEN EndEvents(f.status, Join(f.fragments)) ELSE <<>>)
    \o (IF f.closed THEN <<Event("close", Str(<<"e", "r", "r">>))>> ELSE <<>>)

\* C26: with several JSON-mode requests in flight, in every interleaving of
\* their response events each handle has emitted exactly the events of its
\* own response: its fragments as chunks in arrival order, the value or
\* error of its own body and status, and its own terminal event
C26_HandlesAreIndependent ==
  \A k \in 1..Len(flights) : flights[k].emitted = OwnEvents(flights[k])

\* two requests whose fragments arrived interleaved: the first got `{` and
\* `}` and ended with the value {}, the second got `1` as a chunk
C26_Witness ==
  /\ Len(flights) = 2
  /\ flights[1].fragments = << <<"{">>, <<"}">> >>
  /\ flights[2].fragments = << <<"1">> >>
  /\ flights[1].emitted = <<Event("data", Obj(<<>>)), Event("end", Undefined)>>
  /\ flights[2].emitted = <<Event("chunk", Num(1))>>

====
